---- MODULE Spec2Model ----
(***************************************************************************)
(* State-machine model of transcode_large_videos.py: the per-file          *)
(* decide / encode / verify / finalize loop of main(), the streaming       *)
(* report writer (_open_report, _write_record, _close_report) and the      *)
(* SIGINT / SIGTERM / atexit shutdown paths.                               *)
(*                                                                         *)
(* Units.  Sizes are counted in units of 50,000,000 bytes (40 = 2 GB),     *)
(* durations in tenths of a second (6005 = 600.5 s).  The savings gate is  *)
(* homogeneous in the size, so the scaling keeps every comparison.  The    *)
(* code compares in binary floating point; the model compares exactly.     *)
(*                                                                         *)
(* Python runs a signal handler on the main thread between two bytecodes   *)
(* of whatever frame is executing.  The call stack is therefore a          *)
(* sequence of frames (main at the bottom); only the top frame steps, and  *)
(* a signal pushes a handler frame on top of it.                           *)
(***************************************************************************)
EXTENDS Integers, Sequences, FiniteSets, TLC

VARIABLES
    args,           \* the parsed command line (constant during a run)
    env,            \* what the prober and the encoder may answer in this run
    prior,          \* report files of earlier runs found in report_dir
    fs,             \* the scanned tree: path -> size of every existing file
    iter_paths,     \* the candidates still to visit, in visiting order
    history_paths,  \* the history index
    cnt,            \* total / processed / skipped
    records,        \* the in-memory list of report records
    report,         \* the streaming report file and the writer's flags
    cur,            \* the candidate being processed
    stack,          \* the call stack of the main thread
    proc,           \* handlers registered, exit status, signals delivered
    obs             \* observation: paths probed, handed to the encoder; the pre-scan pairs;
                    \* the encoder-list queries and what _ffmpeg_encoders returned

vars == <<args, env, prior, fs, iter_paths, history_paths, cnt, records, report,
          cur, stack, proc, obs>>

----------------------------------------------------------------------------
(* Bounds of the model *)

MaxFiles == 2
MaxSignals == 2
MaxSuffix == 4

(* Program constants *)

MinSaving == 5
DurTol == 5

Sizes == {10, 40}
NewSizes == {30, 38, 39}
Durs == {6000, 6005, 6006}
ProbeDurs == {0, 6000}
RetCodes == {0, 1}
Resps == {"y", "n", ""}
Signals == {"SIGINT", "SIGTERM"}

----------------------------------------------------------------------------
(* Paths: {stem}[.{tag}][.{n}].{ext}; the stem keeps its letter case *)

P(stem, tag, n, ext) == [stem |-> stem, tag |-> tag, n |-> n, ext |-> ext]

NoPath == P("", "", 0, "")

OrigPaths == {P("a", "", 0, "mkv"), P("a", "", 0, "mp4"), P("A", "", 0, "mkv")}

exts == {"mkv", "mp4"}

\* str(p).lower()
LowerPath(p) == [p EXCEPT !.stem = IF @ = "A" THEN "a" ELSE @]

\* p.with_name(p.stem + ".transcoded" + out_ext)
FinalPath(p, out_ext) == P(p.stem, "transcoded", 0, out_ext)

\* p.with_name(p.stem + ".transcoding" + out_ext)
TmpPath(p, out_ext) == P(p.stem, "transcoding", 0, out_ext)

\* a filter on the extension alone
IsCandidateByExt(p) == p.ext \in exts

\* the name filter of the scan: extension in the list, no marker in the name
IsCandidate(p) == p.ext \in exts /\ p.tag = ""

Exists(f, p) == p \in DOMAIN f

Remove(f, p) == [q \in DOMAIN f \ {p} |-> f[q]]

Put(f, p, sz) == [q \in DOMAIN f \cup {p} |-> IF q = p THEN sz ELSE f[q]]

RECURSIVE unique_from(_, _, _)
unique_from(f, p, i) ==
    LET cand == [p EXCEPT !.n = i]
    IN  IF ~Exists(f, cand) THEN cand ELSE unique_from(f, p, i + 1)

unique_path_first_only(f, p) == IF ~Exists(f, p) THEN p ELSE [p EXCEPT !.n = 1]

unique_path(f, p) == IF ~Exists(f, p) THEN p ELSE unique_from(f, p, 1)

----------------------------------------------------------------------------
(* Option values as typed, and the parsers of sizes and bitrates *)

\* an option value as typed.  kind: "none" (option absent), "empty" (the
\* empty string), "text" (no leading number) or "num" (the whole number num
\* followed by the suffix suf, a sequence of characters)
Arg(kind, num, suf) == [kind |-> kind, num |-> num, suf |-> suf]

Raised == [ok |-> FALSE, v |-> 0]

Parsed(v) == [ok |-> TRUE, v |-> v]

\* str.upper() on the letters that occur in the suffixes
UpperText(t) ==
    [i \in DOMAIN t |->
        CASE t[i] = "k" -> "K" [] t[i] = "m" -> "M" [] t[i] = "g" -> "G"
          [] t[i] = "t" -> "T" [] t[i] = "p" -> "P" [] t[i] = "b" -> "B"
          [] t[i] = "s" -> "S" [] t[i] = "x" -> "X" [] OTHER -> t[i]]

\* str.lower() on the same letters
LowerText(t) ==
    [i \in DOMAIN t |->
        CASE t[i] = "K" -> "k" [] t[i] = "M" -> "m" [] t[i] = "G" -> "g"
          [] t[i] = "T" -> "t" [] t[i] = "P" -> "p" [] t[i] = "B" -> "b"
          [] t[i] = "S" -> "s" [] t[i] = "X" -> "x" [] OTHER -> t[i]]

\* ([KMGTP]?B?) under re.IGNORECASE, upper-cased
SizeSuffixes ==
    { k \o b : k \in {<<>>, <<"K">>, <<"M">>, <<"G">>, <<"T">>, <<"P">>}, b \in {<<>>, <<"B">>} }

\* the table u, for the suffixes it has
SizeUnit(suf) ==
    CASE suf = <<"B">> -> 1
      [] suf = <<"K", "B">> -> 1024
      [] suf = <<"M", "B">> -> 1024 * 1024
      [] suf = <<"G", "B">> -> 1024 * 1024 * 1024
      [] suf = <<"T", "B">> -> 1024 * 1024 * 1024 * 1024

\* a threshold of b bytes in the model's size unit of 50,000,000 bytes, rounded
\* up: a size of k units is below the threshold exactly when k is below this
SizeUnits(b) == (b + 49999999) \div 50000000

parse_size_any_suffix(s) ==
    IF s.kind # "num" \/ UpperText(s.suf) \notin SizeSuffixes
    THEN Raised
    ELSE Parsed(s.num)

\* _parse_size, in bytes: ValueError when the regex does not match, KeyError
\* when the suffix is not in u
parse_size(s) ==
    IF s.kind # "num" \/ UpperText(s.suf) \notin SizeSuffixes
    THEN Raised
    ELSE LET up == UpperText(s.suf)
             suf == IF up = <<>> THEN <<"B">>
                    ELSE IF up \in {<<"K">>, <<"M">>, <<"G">>, <<"T">>} THEN up \o <<"B">>
                    ELSE up
         IN  IF suf \notin {<<"B">>, <<"K", "B">>, <<"M", "B">>, <<"G", "B">>, <<"T", "B">>}
             THEN Raised
             ELSE Parsed(s.num * SizeUnit(suf))

\* ([kmg]?b?p?s?) after .lower()
BitrateSuffixes ==
    { k \o b \o p \o t : k \in {<<>>, <<"k">>, <<"m">>, <<"g">>}, b \in {<<>>, <<"b">>},
                          p \in {<<>>, <<"p">>}, t \in {<<>>, <<"s">>} }

parse_bitrate_binary(s) ==
    IF s.kind # "num" \/ LowerText(s.suf) \notin BitrateSuffixes
    THEN Raised
    ELSE LET suf == LowerText(s.suf) IN
         Parsed(IF suf \in {<<"k">>, <<"k", "b">>, <<"k", "b", "p", "s">>} THEN s.num * 1024
                ELSE IF suf \in {<<"m">>, <<"m", "b">>, <<"m", "b", "p", "s">>}
                     THEN s.num * 1024 * 1024
                ELSE IF suf \in {<<"g">>, <<"g", "b">>, <<"g", "b", "p", "s">>}
                     THEN s.num * 1024 * 1024 * 1024
                ELSE s.num)

\* _parse_bitrate, in bits per second: a suffix the regex accepts and that is
\* none of the listed ones leaves the number as it is
parse_bitrate(s) ==
    IF s.kind # "num" \/ LowerText(s.suf) \notin BitrateSuffixes
    THEN Raised
    ELSE LET suf == LowerText(s.suf) IN
         Parsed(IF suf \in {<<"k">>, <<"k", "b">>, <<"k", "b", "p", "s">>} THEN s.num * 1000
                ELSE IF suf \in {<<"m">>, <<"m", "b">>, <<"m", "b", "p", "s">>}
                     THEN s.num * 1000000
                ELSE IF suf \in {<<"g">>, <<"g", "b">>, <<"g", "b", "p", "s">>}
                     THEN s.num * 1000000000
                ELSE s.num)

----------------------------------------------------------------------------
(* The command line.  Every combination of the two deletion flags is       *)
(* paired with each profile of the remaining options.  All profiles run    *)
(* with --min-size 1000000000 (20 units), --min-bitrate 10M when the       *)
(* bitrate threshold is on, --max-transcodes 1 when the cap is on,         *)
(* --gpu none, and the defaults --min-saving 5, --container mkv,           *)
(* --codec libx265, --est-mode ratio, no --est-ratio (has_est_ratio; the   *)
(* ratio est_ratio is in percent), no --est-target-v-bitrate and           *)
(* --audio-bitrate 160k.                                                   *)

Profile(dry, hist, fmt, file, lf, hm, hb, bo) ==
    [dry_run |-> dry, use_history |-> hist, report_format |-> fmt,
     report_file |-> file, largest_first |-> lf,
     has_max |-> hm, max_transcodes |-> 1,
     has_min_bps |-> hb, min_bps |-> 10, bitrate_only |-> bo,
     print_bitrate |-> FALSE, min_bytes |-> 20,
     min_saving |-> MinSaving, container |-> "mkv",
     codec |-> "libx265", gpu |-> "none",
     est_mode |-> "ratio", has_est_ratio |-> FALSE, est_ratio |-> 0,
     est_target_v_bitrate |-> Arg("none", 0, <<>>),
     audio_bitrate |-> Arg("num", 160, <<"k">>)]

WithDelete(pr, nd, cd) ==
    [k \in DOMAIN pr \cup {"no_delete", "confirm_delete"} |->
        IF k = "no_delete" THEN nd
        ELSE IF k = "confirm_delete" THEN cd
        ELSE pr[k]]

\* the deletion flags are never read in a dry run
Configs ==
    LET profiles ==
            { Profile(FALSE, FALSE, "text", FALSE, FALSE, FALSE, FALSE, FALSE),
              Profile(FALSE, TRUE,  "json", TRUE,  FALSE, FALSE, FALSE, FALSE),
              Profile(FALSE, FALSE, "csv",  TRUE,  TRUE,  FALSE, TRUE,  FALSE),
              Profile(FALSE, FALSE, "json", TRUE,  FALSE, TRUE,  FALSE, FALSE),
              Profile(TRUE,  FALSE, "csv",  FALSE, FALSE, FALSE, TRUE,  TRUE) }
    IN  { c \in { WithDelete(pr, nd, cd) : pr \in profiles, nd \in BOOLEAN, cd \in BOOLEAN } :
            c.dry_run => (~c.no_delete /\ ~c.confirm_delete) }

\* streaming = args.report_file and (args.report_format in ("csv", "json"))
streaming == args.report_file /\ args.report_format \in {"csv", "json"}

Structured == args.report_format \in {"csv", "json"}

----------------------------------------------------------------------------
(* Report files of earlier runs: each a sequence of (path, action) rows *)

Row(p, act) == [path |-> p, action |-> act]

PriorChoices ==
    { { <<Row(P("a", "", 0, "mkv"), "skipped")>> },
      { <<Row(P("a", "", 0, "mkv"), "dry_run")>>,
        <<Row(P("A", "", 0, "mkv"), "processed"), Row(P("a", "", 0, "mp4"), "skipped")>> },
      { <<Row(P("A", "", 0, "mkv"), "skipped"), Row(P("a", "", 0, "mp4"), "failed")>>,
        <<Row(P("a", "", 0, "mp4"), "dry_run"), Row(NoPath, "summary"), Row(NoPath, "")>> } }

SimulationOnly(f) ==
    LET actions == { f[i].action : i \in 1..Len(f) }
    IN  actions # {} /\ actions \subseteq {"dry_run", "summary", ""}

LoadHistoryAnyOutcome(files) ==
    UNION { { LowerPath(f[i].path) :
                i \in { j \in 1..Len(f) : f[j].action # "dry_run" /\ f[j].path # NoPath } }
          : f \in files }

\* every report file that is not simulation-only adds the lower-cased path of
\* each of its rows with action == "skipped" and a non-empty path
LoadHistory(files) ==
    UNION { IF SimulationOnly(f)
            THEN {}
            ELSE { LowerPath(f[i].path) :
                     i \in { j \in 1..Len(f) : f[j].action = "skipped" /\ f[j].path # NoPath } }
          : f \in files }

----------------------------------------------------------------------------
(* The tree at start: one or more sources, with or without leftovers of    *)
(* an earlier run beside them.                                             *)

ExtraChoices ==
    { {},
      { P("a", "transcoding", 0, "mkv") },
      { P("a", "transcoded", 0, "mkv"), P("a", "transcoded", 1, "mkv") } }

Trees ==
    { [p \in DOMAIN sz \cup e |-> IF p \in DOMAIN sz THEN sz[p] ELSE 30] :
        sz \in UNION { [S -> Sizes] :
                         S \in { T \in SUBSET OrigPaths : Cardinality(T) \in 1..MaxFiles } },
        e \in ExtraChoices }

Perms(S) ==
    { s \in [1..Cardinality(S) -> S] : \A i, j \in 1..Cardinality(S) : i # j => s[i] # s[j] }

\* rglob order: the entries that pass the scan's filter, in any order
TraversalOrders(f) == Perms({ p \in DOMAIN f : IsCandidate(p) })

SmallestFirstOrders(f) ==
    { s \in TraversalOrders(f) : \A i, j \in 1..Len(s) : i < j => f[s[i]] <= f[s[j]] }

\* pairs.sort(key=size, reverse=True): non-increasing size, ties in traversal order
LargestFirstOrders(f) ==
    { s \in TraversalOrders(f) : \A i, j \in 1..Len(s) : i < j => f[s[i]] >= f[s[j]] }

----------------------------------------------------------------------------
(* Frames and records *)

Frame(fn, pc, sig) == [fn |-> fn, pc |-> pc, sig |-> sig]

Top == stack[Len(stack)]

MainAt(pc) == Len(stack) = 1 /\ stack[1].pc = pc

Goto(pc) == stack' = <<[stack[1] EXCEPT !.pc = pc]>>

\* est_out = None, est_saved = None
NoEstimate == [known |-> FALSE, out |-> 0, saved |-> 0]

NoCur ==
    [p |-> NoPath, orig_size |-> 0, tmp_path |-> NoPath, final_path |-> NoPath,
     target_path |-> NoPath, ret |-> -1, new_size |-> 0, gate |-> "none",
     od |-> 0, nd |-> 0, durations_match |-> FALSE, asked |-> FALSE, resp |-> "",
     effect_no_delete |-> FALSE, unlink_err |-> FALSE, pending |-> FALSE,
     skip_reason |-> "", dur |-> 0, vcodec |-> "", est |-> NoEstimate]

\* total, processed, skipped, est_total_saved_bytes (in units of 100 bytes), est_total_count
NoCounts ==
    [total |-> 0, processed |-> 0, skipped |-> 0, est_total_saved |-> 0, est_total_count |-> 0]

Rec(p, act, reason) == [path |-> p, action |-> act, reason |-> reason]

\* a prober that always reports 600.0 s for the source; io_errors: whether a
\* write of _write_record on the open report file can raise
SteadyEnv == [probes |-> ProbeDurs, durs |-> {6000}, new_sizes |-> {30, 39}, io_errors |-> FALSE]

\* _ENCODERS_CACHE = None
NoCache == [known |-> FALSE, names |-> {}]

\* the process state of the run-th invocation; prev: the rows the previous
\* invocation left in its streaming report
NewProc(run, prev) ==
    [handlers_on |-> FALSE, exit_status |-> -1, exit_sig |-> "", nsig |-> 0,
     run |-> run, prev |-> prev, encoders_cache |-> NoCache]

\* nothing observed yet.  queried: the outcomes of the encoder-list queries;
\* returned: what each call of _ffmpeg_encoders returned; io_failed: the
\* calls of _write_record in which a write raised; listed: the entries the
\* traversal of the tree has come to so far
NoObs ==
    [probed |-> {}, encoded |-> {}, pairs |-> <<>>, queried |-> <<>>, returned |-> <<>>,
     io_failed |-> 0, listed |-> {}]

NewReport ==
    [exists |-> FALSE, open |-> FALSE, content |-> <<>>,
     json_first |-> TRUE, cleanup_done |-> FALSE]

InitOver(cfgs, priors, trees, e) ==
    /\ args \in cfgs
    /\ env = e
    /\ prior \in (IF args.use_history THEN priors ELSE {{}})
    /\ fs \in trees
    /\ iter_paths = <<>>
    /\ history_paths = {}
    /\ cnt = NoCounts
    /\ records = <<>>
    /\ report = NewReport
    /\ cur = NoCur
    /\ stack = <<Frame("main", "start", "")>>
    /\ proc = NewProc(1, <<>>)
    /\ obs = NoObs

InitWith(e) == InitOver(Configs, PriorChoices, Trees, e)

\* every answer of the prober and every output size of the encoder
Init ==
    InitWith([probes |-> ProbeDurs, durs |-> Durs, new_sizes |-> NewSizes, io_errors |-> FALSE])

----------------------------------------------------------------------------
(* Startup: handlers and atexit, _open_report, history, ordering *)

\* atexit.register(_close_report); signal.signal(SIGINT / SIGTERM, ...)
Start ==
    /\ MainAt("start")
    /\ IF streaming
       THEN /\ proc' = [proc EXCEPT !.handlers_on = TRUE]
            /\ Goto("open")
       ELSE /\ proc' = proc
            /\ Goto("setup")
    /\ UNCHANGED <<args, env, prior, fs, iter_paths, history_paths, cnt, records, report, cur, obs>>

\* _open_report: csv_file / json_file = open(report_path, "w")
OpenReport ==
    /\ MainAt("open")
    /\ report' = [report EXCEPT !.exists = TRUE, !.open = TRUE]
    /\ Goto("open_hdr")
    /\ UNCHANGED <<args, env, prior, fs, iter_paths, history_paths, cnt, records, cur, proc, obs>>

Tok(k, r) == [k |-> k, rec |-> r]

NoRec == Rec(NoPath, "", "")

\* a write on the file object: it raises ValueError on a closed file
FileWrite(rep, tok) ==
    IF rep.open THEN [rep EXCEPT !.content = Append(@, tok)] ELSE rep

\* _open_report: csv_writer.writeheader() / json_file.write("[\n"); json_first = True
WriteHeader ==
    /\ MainAt("open_hdr")
    /\ report' = [FileWrite(report, Tok(IF args.report_format = "csv" THEN "header" ELSE "[", NoRec))
                    EXCEPT !.json_first = TRUE]
    /\ Goto("setup")
    /\ UNCHANGED <<args, env, prior, fs, iter_paths, history_paths, cnt, records, cur, proc, obs>>

\* what csv.DictReader / json.load give back for a streaming report: its rows,
\* or nothing when the file does not parse as a JSON array
ReportRows(fmt, content) ==
    LET rows == SelectSeq(content, LAMBDA t : t.k \in {"row", "rec"})
        wellformed ==
            IF fmt = "csv"
            THEN Len(content) >= 1 /\ content[1].k = "header"
            ELSE /\ Len(content) >= 2
                 /\ content[1].k = "[" /\ content[Len(content)].k = "]"
                 /\ \A i \in 2..(Len(content) - 1) :
                      content[i].k = (IF i % 2 = 0 THEN "rec" ELSE ",")
                 /\ Len(content) > 2 => content[Len(content) - 1].k = "rec"
    IN  IF wellformed
        THEN [i \in 1..Len(rows) |-> Row(rows[i].rec.path, rows[i].rec.action)]
        ELSE <<>>

\* the report files in report_dir when the history is loaded: the prior
\* reports and, in a streaming run, the report this run has just opened
ReportFiles ==
    prior \cup (IF report.exists THEN {ReportRows(args.report_format, report.content)} ELSE {})

\* pairs.append((_sz, _p)) for every entry of the sorted pre-scan
Pairs(f, order) == [i \in 1..Len(order) |-> [sz |-> f[order[i]], p |-> order[i]]]

\* history_paths from the prior reports; iter_paths from rglob or the size sort
Setup ==
    /\ MainAt("setup")
    /\ history_paths' = IF args.use_history THEN LoadHistory(ReportFiles) ELSE {}
    /\ iter_paths' \in (IF args.largest_first THEN LargestFirstOrders(fs) ELSE TraversalOrders(fs))
    /\ obs' = [obs EXCEPT !.pairs = IF args.largest_first THEN Pairs(fs, iter_paths') ELSE <<>>,
                          !.listed = DOMAIN fs]
    /\ Goto("loop")
    /\ UNCHANGED <<args, env, prior, fs, cnt, records, report, cur, proc>>

----------------------------------------------------------------------------
(* The loop head: cap, history fast-skip, probe and skip decision *)

\* a cap that stops the loop one candidate late
LimitReachedLate == args.has_max /\ cnt.processed > args.max_transcodes

LimitReached == args.has_max /\ cnt.processed >= args.max_transcodes

\* iter_paths = root.rglob("*") is a generator: without --largest-first the
\* traversal goes on while the loop runs, and an entry that was created since
\* the scan began can come up.  The loop looks at it as at any other entry:
\* unless the cap is reached, the filter on its name either drops it
\* (continue) or leaves it as the entry the loop body goes on with.
Yield ==
    /\ MainAt("loop")
    /\ ~args.largest_first
    /\ ~LimitReached
    /\ \E p \in DOMAIN fs \ obs.listed :
        /\ obs' = [obs EXCEPT !.listed = @ \cup {p}]
        /\ iter_paths' = IF IsCandidate(p) THEN <<p>> \o iter_paths ELSE iter_paths
    /\ UNCHANGED <<args, env, prior, fs, history_paths, cnt, records, report, cur, stack, proc>>

\* bps = orig_size * 8 / dur, compared with min_bps (Mbit/s) without dividing
BpsBelow(size, dur, min_bps) == size * 4000 < min_bps * dur

\* the estimate with the audio floor left out
estimate_no_floor(a, size, dur) ==
    LET audio == parse_bitrate(a.audio_bitrate)
        Known(out) == [known |-> TRUE, out |-> out, saved |-> size * 500000 - out]
    IN  IF dur <= 0 THEN NoEstimate
        ELSE IF a.est_mode = "target" /\ a.est_target_v_bitrate.kind \notin {"none", "empty"}
        THEN LET v == parse_bitrate(a.est_target_v_bitrate) IN
             IF ~v.ok THEN NoEstimate
             ELSE Known((v.v \div 8000 + (IF audio.ok THEN audio.v \div 8000 ELSE 0)) * dur)
        ELSE Known(size * (IF a.has_est_ratio THEN a.est_ratio
                           ELSE IF a.codec = "libx265" THEN 60 ELSE 85) * 5000)

\* the estimate that follows the source's size in target mode too
estimate_ratio_only(a, size, dur) ==
    IF dur <= 0 THEN NoEstimate
    ELSE LET out == size * (IF a.has_est_ratio THEN a.est_ratio
                            ELSE IF a.codec = "libx265" THEN 60 ELSE 85) * 5000
         IN  [known |-> TRUE, out |-> out, saved |-> size * 500000 - out]

\* est_out and est_saved of a candidate of `size` units whose probed duration
\* is dur tenths of a second, in units of 100 bytes.  Bitrates are taken in
\* units of 8000 bit/s (1000 bytes per second), so that a rate r over dur
\* tenths of a second is r * dur units, and bps * ratio * dur / 8, with
\* bps = orig_size * 8 / dur and the ratio in percent, is size * ratio * 5000
\* units; total_bps < audio_bps compares the same two products.
estimate(a, size, dur) ==
    LET audio == parse_bitrate(a.audio_bitrate)
        Known(out) == [known |-> TRUE, out |-> out, saved |-> size * 500000 - out]
    IN  IF dur <= 0 THEN NoEstimate
        ELSE IF a.est_mode = "target" /\ a.est_target_v_bitrate.kind \notin {"none", "empty"}
        THEN LET v == parse_bitrate(a.est_target_v_bitrate) IN
             IF ~v.ok THEN NoEstimate
             ELSE Known((v.v \div 8000 + (IF audio.ok THEN audio.v \div 8000 ELSE 0)) * dur)
        ELSE LET ratio == IF a.has_est_ratio THEN a.est_ratio
                          ELSE IF a.codec = "libx265" THEN 60 ELSE 85
                 total == size * ratio * 5000
                 floor == (audio.v \div 8000) * dur
             IN  Known(IF audio.ok /\ total < floor THEN floor ELSE total)

SkipReasonSizeInclusive(a, size, dur) ==
    IF a.has_min_bps
    THEN IF dur > 0
         THEN IF BpsBelow(size, dur, a.min_bps) THEN "bitrate_below_threshold" ELSE ""
         ELSE IF a.bitrate_only THEN "no_duration"
              ELSE IF size <= a.min_bytes THEN "size_below_threshold" ELSE ""
    ELSE IF size <= a.min_bytes THEN "size_below_threshold" ELSE ""

SkipReasonSizeAfterBitrate(a, size, dur) ==
    IF a.has_min_bps /\ dur > 0 /\ BpsBelow(size, dur, a.min_bps)
    THEN "bitrate_below_threshold"
    ELSE IF a.has_min_bps /\ dur = 0 /\ a.bitrate_only
         THEN "no_duration"
         ELSE IF size < a.min_bytes THEN "size_below_threshold" ELSE ""

SkipReasonFailClosed(a, size, dur) ==
    IF a.has_min_bps
    THEN IF dur > 0
         THEN IF BpsBelow(size, dur, a.min_bps) THEN "bitrate_below_threshold" ELSE ""
         ELSE "no_duration"
    ELSE IF size < a.min_bytes THEN "size_below_threshold" ELSE ""

SkipReasonBitrateOnlySmall(a, size, dur) ==
    IF a.has_min_bps
    THEN IF dur > 0
         THEN IF BpsBelow(size, dur, a.min_bps) /\ size < a.min_bytes
              THEN "bitrate_below_threshold" ELSE ""
         ELSE IF a.bitrate_only THEN "no_duration"
              ELSE IF size < a.min_bytes THEN "size_below_threshold" ELSE ""
    ELSE IF size < a.min_bytes THEN "size_below_threshold" ELSE ""

\* a skip rule that also refuses a candidate whose estimated saving is not positive
SkipReasonEstimateGated(a, size, dur) ==
    IF a.has_min_bps /\ dur > 0 /\ BpsBelow(size, dur, a.min_bps) THEN "bitrate_below_threshold"
    ELSE IF a.has_min_bps /\ dur <= 0 /\ a.bitrate_only THEN "no_duration"
    ELSE IF ~(a.has_min_bps /\ dur > 0) /\ size < a.min_bytes THEN "size_below_threshold"
    ELSE IF estimate(a, size, dur).known /\ estimate(a, size, dur).saved <= 0
         THEN "no_estimated_saving"
    ELSE ""

\* skip_reason: the bitrate rule when the bitrate is known, else no_duration
\* under --bitrate-only, else the size rule
SkipReason(a, size, dur) ==
    IF a.has_min_bps
    THEN IF dur > 0
         THEN IF BpsBelow(size, dur, a.min_bps) THEN "bitrate_below_threshold" ELSE ""
         ELSE IF a.bitrate_only THEN "no_duration"
              ELSE IF size < a.min_bytes THEN "size_below_threshold" ELSE ""
    ELSE IF size < a.min_bytes THEN "size_below_threshold" ELSE ""

ProbeNeeded(a) == a.print_bitrate \/ a.has_min_bps \/ a.report_format \in {"csv", "json"} \/ a.dry_run

\* records.append(_rec); _write_record(_rec): the record waits in cur while it is written
Emit(c, r) ==
    /\ records' = IF Structured THEN Append(records, r) ELSE records
    /\ IF streaming
       THEN /\ cur' = [c EXCEPT !.pending = TRUE]
            /\ Goto("write")
       ELSE /\ cur' = c
            /\ Goto("loop")

\* "Reached max transcodes; stopping." / the iterator is exhausted; the loop's locals die
LoopEnd ==
    /\ MainAt("loop")
    /\ LimitReached \/ iter_paths = <<>>
    /\ cur' = NoCur
    /\ Goto("end")
    /\ UNCHANGED <<args, env, prior, fs, iter_paths, history_paths, cnt, records, report, proc, obs>>

Candidate(p) == [NoCur EXCEPT !.p = p, !.orig_size = fs[p]]

HistoryHitExactCase(a, hist, p) == a.use_history /\ p \in hist

\* a lookup that also finds the paths this run has recorded as skipped
HistoryHitOwnRecords(a, hist, p) ==
    a.use_history /\
        (\/ LowerPath(p) \in hist
         \/ \E i \in 1..Len(records) :
              records[i].action = "skipped" /\ LowerPath(records[i].path) = LowerPath(p))

\* key = str(p).lower(); key in history_paths
HistoryHit(a, hist, p) == a.use_history /\ LowerPath(p) \in hist

HistorySkip ==
    /\ MainAt("loop")
    /\ ~LimitReached /\ iter_paths # <<>>
    /\ LET p == Head(iter_paths) IN
        /\ Exists(fs, p) /\ IsCandidate(p)
        /\ HistoryHit(args, history_paths, p)
        /\ iter_paths' = Tail(iter_paths)
        /\ cnt' = [cnt EXCEPT !.skipped = @ + 1, !.total = @ + 1]
        /\ Emit(Candidate(p), Rec(p, "skipped", "history"))
    /\ UNCHANGED <<args, env, prior, fs, history_paths, report, proc, obs>>

\* a tally that takes in the skipped candidates too
InEstimatedTotalSkippedToo(reason, est) == est.known /\ est.saved > 0

\* a candidate past the skip decision of a dry run adds to the estimated total
\* when est_saved is not None and est_saved > 0
InEstimatedTotal(reason, est) == reason = "" /\ est.known /\ est.saved > 0

\* probe, estimate, skip decision; a skipped or dry-run candidate ends here
Decide ==
    /\ MainAt("loop")
    /\ ~LimitReached /\ iter_paths # <<>>
    /\ LET p == Head(iter_paths) IN
        /\ Exists(fs, p) /\ IsCandidate(p)
        /\ ~HistoryHit(args, history_paths, p)
        /\ \E dur \in (IF ProbeNeeded(args) THEN env.probes ELSE {0}) :
            LET reason == SkipReason(args, fs[p], dur)
                est == estimate(args, fs[p], dur)
                counted == InEstimatedTotal(reason, est)
            IN
            /\ reason # "" \/ args.dry_run
            /\ iter_paths' = Tail(iter_paths)
            /\ obs' = IF ProbeNeeded(args) THEN [obs EXCEPT !.probed = @ \cup {p}] ELSE obs
            /\ cnt' = [cnt EXCEPT !.total = @ + 1,
                                  !.skipped = IF reason # "" THEN @ + 1 ELSE @,
                                  !.est_total_saved = IF counted THEN @ + est.saved ELSE @,
                                  !.est_total_count = IF counted THEN @ + 1 ELSE @]
            /\ Emit([Candidate(p) EXCEPT !.skip_reason = reason, !.dur = dur, !.est = est],
                    IF reason # "" THEN Rec(p, "skipped", reason) ELSE Rec(p, "dry_run", ""))
    /\ UNCHANGED <<args, env, prior, fs, history_paths, report, proc>>

----------------------------------------------------------------------------
(* The encoder list, the hardware backend and the encoder command *)

\* the outcome of `ffmpeg -hide_banner -encoders`: the names listed, or an exception
Listed(names) == [ok |-> TRUE, names |-> names]

QueryFailed == [ok |-> FALSE, names |-> {}]

ffmpeg_encoders_uncached(cache, out) ==
    [names |-> IF out.ok THEN out.names ELSE {},
     cache |-> [known |-> TRUE, names |-> IF out.ok THEN out.names ELSE {}],
     queried |-> TRUE]

\* _ffmpeg_encoders: the cached set if there is one, else the names of the
\* query (none when it raised), which become the cache
ffmpeg_encoders(cache, out) ==
    IF cache.known
    THEN [names |-> cache.names, cache |-> cache, queried |-> FALSE]
    ELSE [names |-> IF out.ok THEN out.names ELSE {},
          cache |-> [known |-> TRUE, names |-> IF out.ok THEN out.names ELSE {}],
          queried |-> TRUE]

\* name = ("hevc_" if hevc else "h264_") + backend
EncoderName(cpu_codec, backend) ==
    (IF cpu_codec = "libx265" THEN "hevc_" ELSE "h264_") \o backend

choose_gpu_backend_amf_first(cpu_codec, gpu, encs) ==
    IF gpu = "none" THEN ""
    ELSE IF gpu = "auto"
         THEN IF EncoderName(cpu_codec, "amf") \in encs THEN "amf"
              ELSE IF EncoderName(cpu_codec, "qsv") \in encs THEN "qsv"
              ELSE IF EncoderName(cpu_codec, "nvenc") \in encs THEN "nvenc"
              ELSE ""
         ELSE gpu

\* _choose_gpu_backend: "" stands for None; encs is read only under "auto"
choose_gpu_backend(cpu_codec, gpu, encs) ==
    IF gpu = "none" THEN ""
    ELSE IF gpu = "auto"
         THEN IF EncoderName(cpu_codec, "nvenc") \in encs THEN "nvenc"
              ELSE IF EncoderName(cpu_codec, "qsv") \in encs THEN "qsv"
              ELSE IF EncoderName(cpu_codec, "amf") \in encs THEN "amf"
              ELSE ""
         ELSE gpu

\* _build_cmd: the value of -c:v, the cache after the call, and whether
\* _ffmpeg_encoders was called and whether it queried the encoder
build_cmd(codec, gpu, cache, out) ==
    LET called == gpu = "auto"
        e == IF called THEN ffmpeg_encoders(cache, out)
             ELSE [names |-> {}, cache |-> cache, queried |-> FALSE]
        backend == choose_gpu_backend(codec, gpu, e.names)
    IN  [vcodec |-> IF backend # "" THEN EncoderName(codec, backend) ELSE codec,
         cache |-> e.cache, called |-> called, queried |-> e.queried]

\* the outcomes the encoder-list query can have, when one is made
QueryOutcomes(a, cache, e) ==
    IF a.gpu = "auto" /\ ~cache.known THEN e.encoders ELSE {QueryFailed}

\* the candidate proceeds: final_path, tmp_path, a stale temporary file is unlinked,
\* the encoder command is built
Prepare ==
    /\ MainAt("loop")
    /\ ~LimitReached /\ iter_paths # <<>>
    /\ LET p == Head(iter_paths)
           out_ext == args.container
           tmp == TmpPath(p, out_ext)
       IN
        /\ Exists(fs, p) /\ IsCandidate(p)
        /\ ~HistoryHit(args, history_paths, p)
        /\ ~args.dry_run
        /\ iter_paths' = Tail(iter_paths)
        /\ cnt' = [cnt EXCEPT !.total = @ + 1]
        /\ \E dur \in (IF ProbeNeeded(args) THEN env.probes ELSE {0}), unlink_ok \in BOOLEAN :
            /\ SkipReason(args, fs[p], dur) = ""
            /\ ~Exists(fs, tmp) => unlink_ok
            /\ fs' = IF Exists(fs, tmp) /\ unlink_ok THEN Remove(fs, tmp) ELSE fs
            /\ \E out \in QueryOutcomes(args, proc.encoders_cache, env) :
                LET b == build_cmd(args.codec, args.gpu, proc.encoders_cache, out) IN
                /\ cur' = [Candidate(p) EXCEPT
                             !.dur = dur,
                             !.est = estimate(args, fs[p], dur),
                             !.final_path = FinalPath(p, out_ext),
                             !.tmp_path = IF unlink_ok THEN tmp ELSE unique_path(fs, tmp),
                             !.vcodec = b.vcodec]
                /\ proc' = [proc EXCEPT !.encoders_cache = b.cache]
                /\ obs' = [obs EXCEPT
                             !.probed = IF ProbeNeeded(args) THEN @ \cup {p} ELSE @,
                             !.queried = IF b.queried THEN Append(@, out) ELSE @,
                             !.returned = IF b.called THEN Append(@, b.cache.names) ELSE @]
        /\ Goto("encode")
    /\ UNCHANGED <<args, env, prior, history_paths, records, report>>

----------------------------------------------------------------------------
(* Encode and the checks after it *)

\* subprocess.run(cmd): the encoder exits with ret and leaves an output of size out
\* (0: none); the probed duration and the estimate are not read again by
\* anything the model keeps
Encode ==
    /\ MainAt("encode")
    /\ \E ret \in RetCodes, out \in env.new_sizes \cup {0} :
        /\ fs' = IF out = 0 THEN fs ELSE Put(fs, cur.tmp_path, out)
        /\ cur' = [cur EXCEPT !.ret = ret, !.dur = 0, !.est = NoEstimate]
    /\ obs' = [obs EXCEPT !.encoded = @ \cup {cur.p}]
    /\ Goto("post")
    /\ UNCHANGED <<args, env, prior, iter_paths, history_paths, cnt, records, report, proc>>

NeverUnlink(f, p, ok) == f

\* try: tmp_path.unlink() except OSError: pass (ok: the unlink did not raise;
\* cur.unlink_err remembers that it did)
TryUnlink(f, p, ok) == IF Exists(f, p) /\ ok THEN Remove(f, p) ELSE f

\* if ret_code != 0: unlink the temporary output, record action=failed, continue
EncodeFailed ==
    /\ MainAt("post")
    /\ cur.ret # 0
    /\ \E ok \in BOOLEAN :
        /\ ~Exists(fs, cur.tmp_path) => ok
        /\ fs' = TryUnlink(fs, cur.tmp_path, ok)
        /\ Emit([cur EXCEPT !.unlink_err = ~ok], Rec(cur.p, "failed", "ffmpeg_error"))
    /\ UNCHANGED <<args, env, prior, iter_paths, history_paths, cnt, report, proc, obs>>

\* new_size = tmp_path.stat().st_size raises OSError: unlink if it exists, continue
StatFailed ==
    /\ MainAt("post")
    /\ cur.ret = 0
    /\ \E ok \in BOOLEAN :
        /\ ~Exists(fs, cur.tmp_path) => ok
        /\ fs' = TryUnlink(fs, cur.tmp_path, ok)
        /\ cur' = [cur EXCEPT !.gate = "unreadable", !.unlink_err = ~ok]
    /\ Goto("loop")
    /\ UNCHANGED <<args, env, prior, iter_paths, history_paths, cnt, records, report, proc, obs>>

RejectedStrict(new_size, orig_size, min_saving) ==
    new_size * 100 > orig_size * (100 - min_saving)

\* new_size >= orig_size * (1.0 - args.min_saving / 100.0)
Rejected(new_size, orig_size, min_saving) ==
    new_size * 100 >= orig_size * (100 - min_saving)

InsufficientSaving ==
    /\ MainAt("post")
    /\ cur.ret = 0
    /\ Exists(fs, cur.tmp_path)
    /\ Rejected(fs[cur.tmp_path], cur.orig_size, args.min_saving)
    /\ \E ok \in BOOLEAN :
        /\ fs' = TryUnlink(fs, cur.tmp_path, ok)
        /\ Emit([cur EXCEPT !.gate = "reject", !.new_size = fs[cur.tmp_path], !.unlink_err = ~ok],
                Rec(cur.p, "skipped", "insufficient_saving"))
    /\ cnt' = [cnt EXCEPT !.skipped = @ + 1]
    /\ UNCHANGED <<args, env, prior, iter_paths, history_paths, report, proc, obs>>

Abs(x) == IF x < 0 THEN -x ELSE x

DurationsMatchNoAbs(od, nd) == od > 0 /\ nd > 0 /\ od - nd <= DurTol

\* orig_dur_check > 0 and out_dur_check > 0 and abs(orig_dur_check - out_dur_check) <= 0.5
DurationsMatch(od, nd) == od > 0 /\ nd > 0 /\ Abs(od - nd) <= DurTol

\* effect_no_delete = args.no_delete or (not durations_match)
KeepOriginal(a, match) == a.no_delete \/ ~match

\* if not effect_no_delete and args.confirm_delete: resp = input(...)
Asked(a, match) == ~KeepOriginal(a, match) /\ a.confirm_delete

EffectNoDeleteUnconfirmed(a, match, resp) == KeepOriginal(a, match)

\* if resp != "y": effect_no_delete = True
EffectNoDelete(a, match, resp) ==
    KeepOriginal(a, match) \/ (Asked(a, match) /\ resp # "y")

\* target_path: the final name, made unique when it exists
ResolveTarget(f, p, final, keep, out_ext) ==
    IF keep
    THEN IF final = p THEN unique_path(f, FinalPath(p, out_ext))
         ELSE IF Exists(f, final) THEN unique_path(f, final) ELSE final
    ELSE IF Exists(f, final) /\ final # p THEN unique_path(f, final) ELSE final

UnlinkOriginalAlways(f, p, keep, ok) == IF Exists(f, p) /\ ok THEN Remove(f, p) ELSE f

\* if not effect_no_delete and p.exists(): try: p.unlink() except OSError: pass
UnlinkOriginal(f, p, keep, ok) == IF ~keep /\ Exists(f, p) /\ ok THEN Remove(f, p) ELSE f

\* the savings gate passed: re-probe both files, decide deletion, resolve the
\* target, unlink the original when it is to be deleted
Verify ==
    /\ MainAt("post")
    /\ cur.ret = 0
    /\ Exists(fs, cur.tmp_path)
    /\ ~Rejected(fs[cur.tmp_path], cur.orig_size, args.min_saving)
    /\ \E od \in env.durs \cup {0}, nd \in env.durs \cup {0}, resp \in Resps, ok \in BOOLEAN :
        LET match == DurationsMatch(od, nd)
            asked == Asked(args, match)
            keep == EffectNoDelete(args, match, resp)
        IN  /\ ~asked => resp = ""
            /\ keep => ok
            /\ fs' = UnlinkOriginal(fs, cur.p, keep, ok)
            /\ cur' = [cur EXCEPT !.gate = "pass", !.new_size = fs[cur.tmp_path],
                                  !.od = od, !.nd = nd, !.durations_match = match,
                                  !.asked = asked, !.resp = resp,
                                  !.effect_no_delete = keep,
                                  !.target_path = ResolveTarget(fs, cur.p, cur.final_path,
                                                                keep, args.container)]
    /\ Goto("fin_rename")
    /\ UNCHANGED <<args, env, prior, iter_paths, history_paths, cnt, records, report, proc, obs>>

----------------------------------------------------------------------------
(* Finalize: rename, fall back to shutil.move *)

Move(f, src, dst) == Put(Remove(f, src), dst, f[src])

\* the probed durations and the answer are dead once the rename was attempted
Forget(c) == [c EXCEPT !.od = 0, !.nd = 0, !.resp = ""]

\* processed += 1; the record with action=processed
Done(c) ==
    /\ cnt' = [cnt EXCEPT !.processed = @ + 1]
    /\ Emit(Forget(c),
            Rec(c.p, "processed", IF c.durations_match THEN "" ELSE "duration_mismatch"))

\* tmp_path.rename(target_path)
FinRename ==
    /\ MainAt("fin_rename")
    /\ \E ok \in BOOLEAN :
        IF ok
        THEN /\ fs' = Move(fs, cur.tmp_path, cur.target_path)
             /\ Done(cur)
        ELSE /\ Goto("fin_move")
             /\ cur' = Forget(cur)
             /\ UNCHANGED <<fs, cnt, records>>
    /\ UNCHANGED <<args, env, prior, iter_paths, history_paths, report, proc, obs>>

\* except OSError: shutil.move(str(tmp_path), str(target_path)), failure swallowed
FinMove ==
    /\ MainAt("fin_move")
    /\ \E ok \in BOOLEAN :
        fs' = IF ok THEN Move(fs, cur.tmp_path, cur.target_path) ELSE fs
    /\ Done(cur)
    /\ UNCHANGED <<args, env, prior, iter_paths, history_paths, report, proc, obs>>

----------------------------------------------------------------------------
(* _write_record on the streaming report *)

LastRecord == records[Len(records)]

\* whether a write on the report file goes through: OSError where the
\* environment has I/O errors
WriteOutcomes(rep) == IF env.io_errors /\ rep.open THEN BOOLEAN ELSE {TRUE}

ClosedAfterWriteError(rep) == [rep EXCEPT !.open = FALSE]

\* except Exception: pass -- the file object stays as it was
AfterWriteError(rep) == rep

\* csv: writerow + flush.  json: the separator (or json_first = False), then the
\* body; a write that raises ends the call
WriteRecord ==
    /\ MainAt("write")
    /\ \E ok \in WriteOutcomes(report) :
        IF ~ok /\ (args.report_format = "csv" \/ ~report.json_first)
        THEN /\ report' = AfterWriteError(report)
             /\ obs' = [obs EXCEPT !.io_failed = @ + 1]
             /\ cur' = [cur EXCEPT !.pending = FALSE]
             /\ Goto("loop")
        ELSE /\ obs' = obs
             /\ IF args.report_format = "csv"
                THEN /\ report' = FileWrite(report, Tok("row", LastRecord))
                     /\ cur' = [cur EXCEPT !.pending = FALSE]
                     /\ Goto("loop")
                ELSE /\ report' = IF report.json_first
                                  THEN [report EXCEPT !.json_first = FALSE]
                                  ELSE FileWrite(report, Tok(",", NoRec))
                     /\ cur' = cur
                     /\ Goto("write_body")
    /\ UNCHANGED <<args, env, prior, fs, iter_paths, history_paths, cnt, records, proc>>

\* json_file.write(json.dumps(rec)); json_file.flush()
WriteBody ==
    /\ MainAt("write_body")
    /\ \E ok \in WriteOutcomes(report) :
        IF ok
        THEN report' = FileWrite(report, Tok("rec", LastRecord)) /\ obs' = obs
        ELSE /\ report' = AfterWriteError(report)
             /\ obs' = [obs EXCEPT !.io_failed = @ + 1]
    /\ cur' = [cur EXCEPT !.pending = FALSE]
    /\ Goto("loop")
    /\ UNCHANGED <<args, env, prior, fs, iter_paths, history_paths, cnt, records, proc>>

----------------------------------------------------------------------------
(* End of main, atexit, _close_report *)

\* main() returns: normal exit status
End ==
    /\ MainAt("end")
    /\ proc' = [proc EXCEPT !.exit_status = 0, !.exit_sig = "none"]
    /\ Goto("finalize")
    /\ UNCHANGED <<args, env, prior, fs, iter_paths, history_paths, cnt, records, report, cur, obs>>

\* interpreter shutdown: the atexit callback _close_report runs if it was registered
Finalize ==
    /\ MainAt("finalize")
    /\ IF proc.handlers_on
       THEN /\ stack' = <<[stack[1] EXCEPT !.pc = "atexit_wait"], Frame("close", "check", "")>>
            /\ report' = report
       ELSE /\ Goto("exited")
            /\ report' = [report EXCEPT !.open = FALSE]
    /\ UNCHANGED <<args, env, prior, fs, iter_paths, history_paths, cnt, records, cur, proc, obs>>

\* the callback returned: the process ends, open file objects are finalized
AtexitDone ==
    /\ MainAt("atexit_wait")
    /\ Goto("exited")
    /\ report' = [report EXCEPT !.open = FALSE]
    /\ UNCHANGED <<args, env, prior, fs, iter_paths, history_paths, cnt, records, cur, proc, obs>>

InClose(pc) == Len(stack) > 1 /\ Top.fn = "close" /\ Top.pc = pc

Pop == stack' = SubSeq(stack, 1, Len(stack) - 1)

TopGoto(pc) == stack' = [stack EXCEPT ![Len(stack)].pc = pc]

NeverClosed(rep) == FALSE

\* if _cleanup_done: return
AlreadyClosed(rep) == rep.cleanup_done

CloseCheck ==
    /\ InClose("check")
    /\ IF AlreadyClosed(report) THEN Pop ELSE TopGoto("set")
    /\ UNCHANGED <<args, env, prior, fs, iter_paths, history_paths, cnt, records, report, cur, proc, obs>>

\* _cleanup_done = True
CloseSet ==
    /\ InClose("set")
    /\ report' = [report EXCEPT !.cleanup_done = TRUE]
    /\ TopGoto("write")
    /\ UNCHANGED <<args, env, prior, fs, iter_paths, history_paths, cnt, records, cur, proc, obs>>

\* if json_file: json_file.write("\n]\n"), flush; if csv_file: flush; errors swallowed
CloseWrite ==
    /\ InClose("write")
    /\ report' = IF args.report_format = "json" /\ report.exists
                 THEN FileWrite(report, Tok("]", NoRec))
                 ELSE report
    /\ TopGoto("close")
    /\ UNCHANGED <<args, env, prior, fs, iter_paths, history_paths, cnt, records, cur, proc, obs>>

\* finally: json_file.close() / csv_file.close()
CloseFile ==
    /\ InClose("close")
    /\ report' = [report EXCEPT !.open = FALSE]
    /\ TopGoto("ret")
    /\ UNCHANGED <<args, env, prior, fs, iter_paths, history_paths, cnt, records, cur, proc, obs>>

\* print("Report written to ..."); return
CloseReturn ==
    /\ InClose("ret")
    /\ Pop
    /\ UNCHANGED <<args, env, prior, fs, iter_paths, history_paths, cnt, records, report, cur, proc, obs>>

----------------------------------------------------------------------------
(* Signals: lambda s, f: (_close_report(), sys.exit(code)) *)

ExitCode(sig) == IF sig = "SIGINT" THEN 130 ELSE 143

Running == ~(Len(stack) = 1 /\ stack[1].pc \in {"finalize", "atexit_wait", "exited"})

\* the signal is delivered: the handler runs on top of the interrupted frame
Signal(sig) ==
    /\ proc.handlers_on
    /\ Running
    /\ proc.nsig < MaxSignals
    /\ proc' = [proc EXCEPT !.nsig = @ + 1]
    /\ stack' = Append(stack, Frame("handler", "call", sig))
    /\ UNCHANGED <<args, env, prior, fs, iter_paths, history_paths, cnt, records, report, cur, obs>>

\* the handler calls _close_report()
HandlerCall ==
    /\ Len(stack) > 1 /\ Top.fn = "handler" /\ Top.pc = "call"
    /\ stack' = Append([stack EXCEPT ![Len(stack)].pc = "exit"], Frame("close", "check", ""))
    /\ UNCHANGED <<args, env, prior, fs, iter_paths, history_paths, cnt, records, report, cur, proc, obs>>

\* frames below the raising handler
Below == SubSeq(stack, 1, Len(stack) - 1)

\* a _close_report frame interrupted inside its try block runs its finally clause
ClosesOnUnwind(fr) == fr.fn = "close" /\ fr.pc = "write"

\* one interrupted on the way into the finally clause may or may not have closed
MayCloseOnUnwind(fr) == fr.fn = "close" /\ fr.pc = "close"

\* sys.exit(code): SystemExit unwinds every frame; no handler of main catches it
SysExit ==
    /\ Len(stack) > 1 /\ Top.fn = "handler" /\ Top.pc = "exit"
    /\ LET sure == \E i \in 1..Len(Below) : ClosesOnUnwind(Below[i])
           may == \E i \in 1..Len(Below) : MayCloseOnUnwind(Below[i])
           inAtexit == stack[1].pc = "atexit_wait"
       IN
        /\ \E closed \in BOOLEAN :
            /\ sure => closed
            /\ (~sure /\ ~may) => ~closed
            /\ report' = IF closed \/ inAtexit THEN [report EXCEPT !.open = FALSE] ELSE report
        /\ \E partial \in BOOLEAN :
            /\ partial => stack[1].pc = "encode"
            /\ fs' = IF partial THEN Put(fs, cur.tmp_path, 30) ELSE fs
        /\ IF inAtexit
           THEN /\ stack' = <<[stack[1] EXCEPT !.pc = "exited"]>>
                /\ proc' = proc
           ELSE /\ stack' = <<[stack[1] EXCEPT !.pc = "finalize"]>>
                /\ proc' = [proc EXCEPT !.exit_status = ExitCode(Top.sig), !.exit_sig = Top.sig]
    /\ cur' = NoCur
    /\ UNCHANGED <<args, env, prior, iter_paths, history_paths, cnt, records, obs>>

----------------------------------------------------------------------------
(* Specifications *)

MainNext ==
    \/ Start \/ OpenReport \/ WriteHeader \/ Setup
    \/ LoopEnd \/ HistorySkip \/ Decide \/ Prepare
    \/ Encode \/ EncodeFailed \/ StatFailed \/ InsufficientSaving \/ Verify
    \/ FinRename \/ FinMove
    \/ WriteRecord \/ WriteBody
    \/ End \/ Finalize \/ AtexitDone
    \/ CloseCheck \/ CloseSet \/ CloseWrite \/ CloseFile \/ CloseReturn

Next == MainNext

\* runs in which no signal arrives
Spec == Init /\ [][Next]_vars

SignalNext ==
    \/ \E sig \in Signals : Signal(sig)
    \/ HandlerCall
    \/ SysExit

NextSig == MainNext \/ SignalNext

\* streaming runs over one fixed tree, with signals
InitSig ==
    /\ InitWith(SteadyEnv)
    /\ streaming
    /\ ~args.no_delete /\ ~args.confirm_delete
    /\ DOMAIN fs = {P("a", "", 0, "mkv"), P("A", "", 0, "mkv")}
    /\ fs[P("a", "", 0, "mkv")] = 40
    /\ args.use_history => Cardinality(prior) = 1
    /\ args.has_min_bps => fs[P("A", "", 0, "mkv")] = 10

SpecSig == InitSig /\ [][NextSig]_vars

----------------------------------------------------------------------------
(* A second invocation with the same command line over the tree and the    *)
(* report directory the first one left                                     *)

\* the same command is run again: its report directory now holds the first
\* run's report, the tree is as the first run left it
Rerun ==
    /\ MainAt("exited")
    /\ proc.run = 1
    /\ proc.exit_sig = "none"
    /\ LET rows == ReportRows(args.report_format, report.content) IN
        /\ prior' = prior \cup {rows}
        /\ proc' = NewProc(2, rows)
    /\ iter_paths' = <<>>
    /\ history_paths' = {}
    /\ cnt' = NoCounts
    /\ records' = <<>>
    /\ report' = NewReport
    /\ cur' = NoCur
    /\ stack' = <<Frame("main", "start", "")>>
    /\ obs' = NoObs
    /\ UNCHANGED <<args, env, fs>>

NextTwice == MainNext \/ Rerun

\* non-dry runs with --use-history and a streaming report, with and without
\* --max-transcodes 1 and --no-delete; an empty report directory and two
\* sources, the second one small or large
InitTwice ==
    /\ InitOver({ WithDelete(Profile(FALSE, TRUE, IF hm THEN "json" ELSE "csv", TRUE,
                                     FALSE, hm, FALSE, FALSE), nd, FALSE) :
                    hm \in BOOLEAN, nd \in BOOLEAN },
                {{}}, Trees, SteadyEnv)
    /\ DOMAIN fs = {P("a", "", 0, "mkv"), P("A", "", 0, "mkv")}
    /\ fs[P("a", "", 0, "mkv")] = 40

SpecTwice == InitTwice /\ [][NextTwice]_vars

----------------------------------------------------------------------------
(* Two invocations without --largest-first, whose traversal can come to    *)
(* the files made during the scan: a 2 GB and a 0.5 GB source of the same  *)
(* stem and a stale temporary output beside them, with and without         *)
(* --no-delete                                                             *)

NextScan == MainNext \/ Rerun \/ Yield

InitScan ==
    InitOver({ WithDelete(Profile(FALSE, TRUE, "json", TRUE, FALSE, FALSE, FALSE, FALSE),
                          nd, FALSE) : nd \in BOOLEAN },
             {{}},
             { [p \in {P("a", "", 0, "mkv"), P("a", "", 0, "mp4"),
                       P("a", "transcoding", 0, "mkv")} |->
                  IF p = P("a", "", 0, "mkv") THEN 40 ELSE IF p.tag = "" THEN 10 ELSE 30] },
             [probes |-> {6000}, durs |-> {6000}, new_sizes |-> {30, 39}, io_errors |-> FALSE])

SpecScan == InitScan /\ [][NextScan]_vars

----------------------------------------------------------------------------
(* Runs over one source of any of the sizes around the two thresholds,     *)
(* alone or beside a second source, for the skip decision                  *)

\* with --min-size 1000000000 and --min-bitrate 10M: sources of 0.5 GB, 0.75 GB
\* (10 Mbit/s at 600 s), 0.95 GB, 1 GB and 2 GB; a probe that reports no
\* duration, 600 s or 2000 s.  --bitrate-only without --min-bitrate does not
\* get past the argument checks
InitGate ==
    /\ InitOver({ WithDelete(Profile(FALSE, hist,
                                     IF file THEN (IF hist THEN "json" ELSE "csv") ELSE "text",
                                     file, FALSE, FALSE, hb, bo), FALSE, FALSE) :
                    hist \in BOOLEAN, file \in BOOLEAN, hb \in BOOLEAN, bo \in BOOLEAN },
                {{}, {<<Row(P("a", "", 0, "mkv"), "skipped")>>}},
                { [p \in S |-> IF p = P("a", "", 0, "mkv") THEN sz ELSE 40] :
                    sz \in {10, 15, 19, 20, 40},
                    S \in { {P("a", "", 0, "mkv")},
                            {P("a", "", 0, "mkv"), P("a", "", 0, "mp4")} } },
                [probes |-> {0, 6000, 20000}, durs |-> {6000}, new_sizes |-> {30},
                 io_errors |-> FALSE])
    /\ args.bitrate_only => args.has_min_bps

SpecGate == InitGate /\ [][Next]_vars

----------------------------------------------------------------------------
(* --largest-first with --max-transcodes 1 or 2 over three sources of      *)
(* 0.5, 1.8 and 2 GB                                                       *)

InitCap ==
    InitOver({ [WithDelete(Profile(FALSE, hist, "json", TRUE, TRUE, TRUE, FALSE, FALSE),
                           FALSE, FALSE) EXCEPT !.max_transcodes = n] :
                 hist \in BOOLEAN, n \in {1, 2} },
             {{<<Row(P("a", "", 0, "mp4"), "skipped")>>}},
             [OrigPaths -> {10, 36, 40}],
             [probes |-> {6000}, durs |-> {6000}, new_sizes |-> {30, 39}, io_errors |-> FALSE])

SpecCap == InitCap /\ [][Next]_vars

----------------------------------------------------------------------------
(* The start of main(): the encoder binary, then the command line as given *)

\* sys.exit(code) in main
Exit(code) ==
    /\ proc' = [proc EXCEPT !.exit_status = code, !.exit_sig = "none"]
    /\ Goto("finalize")

\* _which_ffmpeg: shutil.which("ffmpeg"), sys.exit(1) when it finds nothing
WhichFfmpeg ==
    /\ MainAt("which")
    /\ IF env.ffmpeg
       THEN Goto("validate") /\ proc' = proc
       ELSE Exit(1)
    /\ UNCHANGED <<args, env, prior, fs, iter_paths, history_paths, cnt, records, report, cur, obs>>

\* min_bytes, min_bps, the --bitrate-only check and the check of the root
\* directory; the thresholds are kept in the model's units (50,000,000 bytes,
\* Mbit/s rounded down)
Validate ==
    /\ MainAt("validate")
    /\ LET size == parse_size(args.min_size)
           given == args.min_bitrate.kind \notin {"none", "empty"}
           rate == parse_bitrate(args.min_bitrate)
       IN
        IF ~size.ok
        THEN Exit(2) /\ args' = args
        ELSE IF given /\ ~rate.ok
        THEN Exit(2) /\ args' = args
        ELSE IF args.bitrate_only /\ ~given
        THEN Exit(2) /\ args' = args
        ELSE IF ~env.root_is_dir
        THEN Exit(2) /\ args' = args
        ELSE /\ args' = [args EXCEPT !.min_bytes = SizeUnits(size.v),
                                     !.has_min_bps = given,
                                     !.min_bps = IF given THEN rate.v \div 1000000 ELSE 0]
             /\ Goto("start")
             /\ proc' = proc
    /\ UNCHANGED <<env, prior, fs, iter_paths, history_paths, cnt, records, report, cur, obs>>

NextCli == WhichFfmpeg \/ Validate \/ MainNext

\* a command line as given, with a streaming json report: the thresholds
\* are not parsed yet
Cli(hist, size, rate, bo, codec, gpu) ==
    LET base == WithDelete(Profile(FALSE, hist, "json", TRUE, FALSE, FALSE, FALSE, FALSE),
                           FALSE, FALSE)
    IN  [k \in DOMAIN base \cup {"min_size", "min_bitrate"} |->
            IF k = "min_size" THEN size
            ELSE IF k = "min_bitrate" THEN rate
            ELSE IF k = "bitrate_only" THEN bo
            ELSE IF k = "codec" THEN codec
            ELSE IF k = "gpu" THEN gpu
            ELSE IF k \in {"min_bytes", "min_bps"} THEN 0
            ELSE IF k = "has_min_bps" THEN FALSE
            ELSE base[k]]

\* every threshold option tried, software encoding.  --min-size: 1000000000,
\* 1GB, 1g, 1PB, 1XB, "big"; --min-bitrate: absent, "", 10M, 10mps, 10x, "fast"
ThresholdConfigs ==
    { Cli(FALSE, size, rate, bo, "libx265", "none") :
        size \in { Arg("num", 1000000000, <<>>), Arg("num", 1, <<"G", "B">>),
                   Arg("num", 1, <<"g">>), Arg("num", 1, <<"P", "B">>),
                   Arg("num", 1, <<"X", "B">>), Arg("text", 0, <<>>) },
        rate \in { Arg("none", 0, <<>>), Arg("empty", 0, <<>>), Arg("num", 10, <<"M">>),
                   Arg("num", 10, <<"m", "p", "s">>), Arg("num", 10, <<"x">>),
                   Arg("text", 0, <<>>) },
        bo \in BOOLEAN }

\* every --codec and --gpu, --min-size 1000000000
BackendConfigs ==
    { Cli(hist, Arg("num", 1000000000, <<>>), Arg("none", 0, <<>>), FALSE, codec, gpu) :
        hist \in BOOLEAN, codec \in {"libx265", "libx264"},
        gpu \in {"none", "auto", "nvenc", "qsv", "amf"} }

\* encoders: what the encoder-list query can give
CliEnvs ==
    { [probes |-> {0, 6000}, durs |-> {6000}, new_sizes |-> {30, 39}, io_errors |-> FALSE,
       ffmpeg |-> ff, root_is_dir |-> dir,
       encoders |-> { QueryFailed, Listed({}),
                      Listed({"libx265", "hevc_qsv", "hevc_amf", "h264_amf"}),
                      Listed({"libx264", "hevc_nvenc", "h264_nvenc", "h264_qsv"}) }] :
        ff \in BOOLEAN, dir \in BOOLEAN }

InitCli ==
    /\ args \in ThresholdConfigs \cup BackendConfigs
    /\ env \in CliEnvs
    /\ prior = IF args.use_history THEN {<<Row(P("a", "", 0, "mp4"), "skipped")>>} ELSE {}
    /\ fs = IF args \in BackendConfigs
            THEN [p \in OrigPaths |-> IF p.ext = "mp4" THEN 10 ELSE 40]
            ELSE [p \in {P("a", "", 0, "mkv")} |-> 40]
    /\ iter_paths = <<>>
    /\ history_paths = {}
    /\ cnt = NoCounts
    /\ records = <<>>
    /\ report = NewReport
    /\ cur = NoCur
    /\ stack = <<Frame("main", "which", "")>>
    /\ proc = NewProc(1, <<>>)
    /\ obs = NoObs

SpecCli == InitCli /\ [][NextCli]_vars

----------------------------------------------------------------------------
(* The two threshold parsers over many option values.  Here min_bytes and  *)
(* min_bps hold what the parsers return, in bytes and in bits per second:  *)
(* no candidate is compared with them.                                     *)

\* min_bytes = _parse_size(args.min_size), sys.exit(2) when it raises
ParseMinSize ==
    /\ MainAt("min_size")
    /\ LET size == parse_size(args.min_size) IN
        IF size.ok
        THEN /\ args' = [args EXCEPT !.min_bytes = size.v]
             /\ Goto("min_bitrate")
             /\ proc' = proc
        ELSE Exit(2) /\ args' = args
    /\ UNCHANGED <<env, prior, fs, iter_paths, history_paths, cnt, records, report, cur, obs>>

\* min_bps = _parse_bitrate(args.min_bitrate) if args.min_bitrate, sys.exit(2) when it raises
ParseMinBitrate ==
    /\ MainAt("min_bitrate")
    /\ LET given == args.min_bitrate.kind \notin {"none", "empty"}
           rate == parse_bitrate(args.min_bitrate)
       IN
        IF given /\ ~rate.ok
        THEN Exit(2) /\ args' = args
        ELSE /\ args' = [args EXCEPT !.has_min_bps = given,
                                     !.min_bps = IF given THEN rate.v ELSE 0]
             /\ Goto("parsed")
             /\ proc' = proc
    /\ UNCHANGED <<env, prior, fs, iter_paths, history_paths, cnt, records, report, cur, obs>>

NextParse == ParseMinSize \/ ParseMinBitrate

\* every text of at most n characters over chars
Texts(chars, n) == UNION { [1..k -> chars] : k \in 0..n }

\* the numbers tried go with the suffixes that keep the product below 2^31
Fits(a, big, huge) ==
    \/ a.num = 1
    \/ a.suf = <<>>
    \/ a.num = 1024 /\ a.suf[1] \notin huge
    \/ a.num = 1000 /\ a.suf[1] \notin huge
    \/ a.num \in {1048576, 1000000} /\ a.suf[1] \notin big \cup huge

\* the --min-size values tried: a number and every suffix of at most n characters
SizeInputs(n) ==
    { a \in { Arg("num", k, t) : k \in {1, 1024, 1048576},
                                 t \in Texts({"K", "k", "M", "m", "G", "g", "B", "b", "P"}, n) } :
        Fits(a, {"M", "m"}, {"G", "g"}) }
    \cup {Arg("text", 0, <<>>)}

\* the --min-bitrate values tried
BitrateInputs(n) ==
    { a \in { Arg("num", k, t) : k \in {1, 1000, 1000000},
                                 t \in Texts({"k", "m", "M", "g", "b", "p", "s", "x"}, n) } :
        Fits(a, {"m", "M"}, {"g"}) }
    \cup {Arg("none", 0, <<>>), Arg("empty", 0, <<>>), Arg("text", 0, <<>>)}

InitParse ==
    /\ \/ \E size \in SizeInputs(MaxSuffix) :
            args = Cli(FALSE, size, Arg("none", 0, <<>>), FALSE, "libx265", "none")
       \/ \E rate \in BitrateInputs(MaxSuffix) :
            args = Cli(FALSE, Arg("num", 1, <<"G", "B">>), rate, FALSE, "libx265", "none")
    /\ env \in { e \in CliEnvs : e.ffmpeg /\ e.root_is_dir }
    /\ prior = {}
    /\ fs = [p \in {P("a", "", 0, "mkv")} |-> 40]
    /\ iter_paths = <<>>
    /\ history_paths = {}
    /\ cnt = NoCounts
    /\ records = <<>>
    /\ report = NewReport
    /\ cur = NoCur
    /\ stack = <<Frame("main", "min_size", "")>>
    /\ proc = NewProc(1, <<>>)
    /\ obs = NoObs

SpecParse == InitParse /\ [][NextParse]_vars

----------------------------------------------------------------------------
(* Streaming runs on a report file whose writes can raise *)

InitIo ==
    InitOver({ WithDelete(Profile(FALSE, hist, fmt, TRUE, FALSE, FALSE, FALSE, FALSE),
                          FALSE, FALSE) : hist \in BOOLEAN, fmt \in {"csv", "json"} },
             {{<<Row(P("a", "", 0, "mp4"), "skipped")>>}},
             { [p \in S |-> sz[p]] :
                 S \in { T \in SUBSET OrigPaths : Cardinality(T) = MaxFiles },
                 sz \in [OrigPaths -> Sizes] },
             [probes |-> {6000}, durs |-> {6000}, new_sizes |-> {30, 39}, io_errors |-> TRUE])

SpecIo == InitIo /\ [][Next]_vars

----------------------------------------------------------------------------
(* Streaming runs under the estimator's configurations.  Ratio mode with  *)
(* no --est-ratio under --codec libx265 and libx264, and with              *)
(* --est-ratio 1.2; target mode with --est-target-v-bitrate absent, 2M or  *)
(* the unparseable "fast"; each with --audio-bitrate 160k, 8M or the       *)
(* unparseable "hi".  Two files of 0.5 or 2 GB whose probe reports 600.0 s *)
(* or nothing, and a third one that the history skips; dry and real runs,  *)
(* with and without --min-bitrate 10M.                                     *)

InitEst ==
    LET none == Arg("none", 0, <<>>)
        audio == {Arg("num", 160, <<"k">>), Arg("num", 8, <<"M">>), Arg("text", 0, <<>>)}
        options ==
            [est_mode : {"ratio"}, has_est_ratio : {FALSE}, codec : {"libx265", "libx264"},
             est_target_v_bitrate : {none}, audio_bitrate : audio]
            \cup
            [est_mode : {"ratio"}, has_est_ratio : {TRUE}, codec : {"libx265"},
             est_target_v_bitrate : {none}, audio_bitrate : audio]
            \cup
            [est_mode : {"target"}, has_est_ratio : {FALSE}, codec : {"libx265"},
             est_target_v_bitrate : {none, Arg("num", 2, <<"M">>), Arg("text", 0, <<>>)},
             audio_bitrate : audio]
        base(dry, hb) ==
            WithDelete(Profile(dry, TRUE, "json", TRUE, FALSE, FALSE, hb, FALSE), FALSE, FALSE)
    IN  InitOver({ [base(dry, hb) EXCEPT
                      !.est_mode = o.est_mode, !.has_est_ratio = o.has_est_ratio,
                      !.est_ratio = IF o.has_est_ratio THEN 120 ELSE 0,
                      !.est_target_v_bitrate = o.est_target_v_bitrate,
                      !.audio_bitrate = o.audio_bitrate, !.codec = o.codec] :
                    dry \in BOOLEAN, hb \in BOOLEAN, o \in options },
                 {{<<Row(P("a", "", 0, "mp4"), "skipped")>>}},
                 { [p \in OrigPaths |-> IF p = P("a", "", 0, "mp4") THEN 40 ELSE sz[p]] :
                     sz \in [OrigPaths -> Sizes] },
                 [probes |-> {0, 6000}, durs |-> {6000}, new_sizes |-> {30, 39},
                  io_errors |-> FALSE])

SpecEst == InitEst /\ [][Next]_vars

----------------------------------------------------------------------------
(* Dry runs under every report format, with and without a report file,     *)
(* the history, --largest-first and --min-bitrate 10M, with the default    *)
(* ratio and with --est-ratio 1.2, over three sources and a stale          *)
(* temporary output; one real run over the same trees beside them          *)

InitDry ==
    InitOver({ [WithDelete(Profile(TRUE, hist, fmt, file, lf, FALSE, hb, FALSE), FALSE, FALSE)
                  EXCEPT !.has_est_ratio = r, !.est_ratio = IF r THEN 120 ELSE 0] :
                 hist \in BOOLEAN, fmt \in {"text", "csv", "json"}, file \in BOOLEAN,
                 lf \in BOOLEAN, hb \in BOOLEAN, r \in BOOLEAN }
             \cup
             { WithDelete(Profile(FALSE, TRUE, "csv", TRUE, FALSE, FALSE, FALSE, FALSE),
                          FALSE, FALSE) },
             {{<<Row(P("a", "", 0, "mp4"), "skipped")>>}},
             { [p \in OrigPaths \cup {P("a", "transcoding", 0, "mkv")} |->
                  IF p \in OrigPaths THEN sz[p] ELSE 30] : sz \in [OrigPaths -> Sizes] },
             [probes |-> {0, 6000}, durs |-> {6000}, new_sizes |-> {30, 39},
              io_errors |-> FALSE])

SpecDry == InitDry /\ [][Next]_vars

----------------------------------------------------------------------------
(* The duplicate remover, deduplicate.py.  It is a program of its own; its  *)
(* runs keep their state in the same variables: args the parsed command     *)
(* line (allowed_size_difference in percent), env what the directory check, *)
(* the stat calls, the prompt and os.remove may answer, fs the scanned      *)
(* directory (name -> size), iter_paths the items of the scan, records the  *)
(* record of each path, cur the locals of the loop over the groups (groups  *)
(* still to handle, files of the group in hand, keep), report the log       *)
(* file, proc the exit status, obs the paths os.remove was called for and   *)
(* the paths the prompt was shown for.  An extension is a sequence of       *)
(* characters.                                                              *)

\* normalize_ext: lower-cased, without a leading dot
normalize_ext(ext) ==
    IF ext = <<>> THEN <<>>
    ELSE LET e == LowerText(ext) IN IF e[1] = "." THEN Tail(e) ELSE e

\* classify_extension, over the part of VIDEO_EXTS, AUDIO_EXTS and DOCUMENT_EXTS
\* that the names of the model use
classify_extension(ext) ==
    LET e == normalize_ext(ext) IN
    IF e \in {<<"m", "p", "4">>, <<"m", "k", "v">>, <<"a", "v", "i">>} THEN "video"
    ELSE IF e \in {<<"m", "p", "3">>} THEN "audio"
    ELSE IF e \in {<<"t", "x", "t">>} THEN "document"
    ELSE "unknown"

\* relative_size_diff: abs(a - b) / max(a, b) as a fraction, 0 when a == b or max is 0
relative_size_diff(a, b) ==
    IF a = b THEN [num |-> 0, den |-> 1]
    ELSE LET m == IF a > b THEN a ELSE b
         IN  IF m = 0 THEN [num |-> 0, den |-> 1] ELSE [num |-> Abs(a - b), den |-> m]

\* scan_directory: one item per regular file, in the order os.scandir gives
\* them; size is -1 when stat raises OSError
scan_directory(f, order, unreadable) ==
    [i \in 1..Len(order) |->
        LET p == order[i] IN
        [path |-> p, basename |-> p.stem, ext |-> normalize_ext(p.ext),
         type |-> classify_extension(normalize_ext(p.ext)),
         size |-> IF p \in unreadable THEN -1 ELSE f[p]]]

\* groups.setdefault(group_key, []).append(it) for the items of the target
\* type, in scan order, with group_key = f"{target_type}:{it['basename'].lower()}";
\* the groups are kept in insertion order
RECURSIVE group_items(_, _, _)
group_items(items, target_type, groups) ==
    IF items = <<>> THEN groups
    ELSE LET it == Head(items)
             gk == [type |-> target_type, base |-> LowerPath(it.path).stem]
             at == { i \in 1..Len(groups) : groups[i].key = gk }
         IN  group_items(Tail(items), target_type,
                         IF it.type # target_type THEN groups
                         ELSE IF at = {} THEN Append(groups, [key |-> gk, files |-> <<it>>])
                         ELSE [groups EXCEPT ![CHOOSE i \in at : TRUE].files = Append(@, it)])

\* a check of the neighbours in the list only
size_mismatch_neighbours(files, allowed) ==
    \E i \in 1..Len(files) - 1 :
        LET d == relative_size_diff(files[i].size, files[i + 1].size)
        IN  d.num * 100 > allowed * d.den

\* bad: some pair of combinations(files, 2) differs by more than the allowed
\* difference (in percent)
size_mismatch(files, allowed) ==
    \E i, j \in 1..Len(files) :
        /\ i < j
        /\ LET d == relative_size_diff(files[i].size, files[j].size)
           IN  d.num * 100 > allowed * d.den

\* max(have_pref, key=lambda x: x["size"]): the first of the largest
keep_of(have_pref) ==
    have_pref[CHOOSE i \in 1..Len(have_pref) :
                /\ \A j \in 1..Len(have_pref) : have_pref[j].size <= have_pref[i].size
                /\ \A j \in 1..i - 1 : have_pref[j].size < have_pref[i].size]

\* for it in files: if records[it["path"]]["action"] == "pending": ... = action
settle(recs, files, action) ==
    [p \in DOMAIN recs |->
        IF recs[p].action = "pending" /\ \E i \in 1..Len(files) : files[i].path = p
        THEN [recs[p] EXCEPT !.action = action]
        ELSE recs[p]]

\* process(): the directory check, then items = scan_directory(directory)
ScanDirectory ==
    /\ MainAt("scan")
    /\ IF ~env.is_dir
       THEN /\ proc' = [proc EXCEPT !.exit_status = 2, !.exit_sig = "none"]
            /\ Goto("exited")
            /\ iter_paths' = iter_paths
       ELSE /\ \E order \in Perms(DOMAIN fs), unreadable \in env.unreadable :
                iter_paths' = scan_directory(fs, order, unreadable \cap DOMAIN fs)
            /\ Goto("records")
            /\ proc' = proc
    /\ UNCHANGED <<args, env, prior, fs, history_paths, cnt, records, report, cur, obs>>

\* records = {}; one record per item: skipped_unknown_extension,
\* skipped_not_target_type or pending
MakeRecords ==
    /\ MainAt("records")
    /\ records' =
         [p \in { iter_paths[i].path : i \in 1..Len(iter_paths) } |->
            LET it == iter_paths[CHOOSE i \in 1..Len(iter_paths) : iter_paths[i].path = p]
            IN  [action |-> IF it.type = "unknown" THEN "skipped_unknown_extension"
                            ELSE IF it.type # args.filetype THEN "skipped_not_target_type"
                            ELSE "pending",
                 size_bytes |-> it.size, group |-> [type |-> "", base |-> ""]]]
    /\ Goto("group")
    /\ UNCHANGED <<args, env, prior, fs, iter_paths, history_paths, cnt, report, cur, proc, obs>>

\* groups = {}; the items of the target type by lower-cased basename
MakeGroups ==
    /\ MainAt("group")
    /\ cur' = [groups |-> group_items(iter_paths, args.filetype, <<>>),
               files |-> <<>>, keep |-> NoPath]
    /\ Goto("groups")
    /\ UNCHANGED <<args, env, prior, fs, iter_paths, history_paths, cnt, records, report, proc, obs>>

\* for gk, files in groups.items(): the group is settled at once, or keep is
\* chosen and the loop over its files begins
TakeGroup ==
    /\ MainAt("groups")
    /\ cur.groups # <<>>
    /\ LET g == Head(cur.groups)
           files == g.files
           marked == [p \in DOMAIN records |->
                        IF \E i \in 1..Len(files) : files[i].path = p
                        THEN [records[p] EXCEPT !.group = g.key] ELSE records[p]]
           have_pref == SelectSeq(files, LAMBDA f : normalize_ext(f.ext) = normalize_ext(args.preferred))
           verdict ==
               IF Len(files) <= 1 THEN "kept_no_duplicate"
               ELSE IF \E i \in 1..Len(files) : files[i].size < 0 THEN "skipped_stat_error"
               ELSE IF size_mismatch(files, args.allowed_size_difference)
                    THEN "skipped_size_mismatch"
               ELSE IF have_pref = <<>> THEN "skipped_preferred_missing"
               ELSE ""
       IN  IF verdict # ""
           THEN /\ records' = settle(marked, files, verdict)
                /\ cur' = [cur EXCEPT !.groups = Tail(@)]
                /\ stack' = stack
           ELSE /\ records' = marked
                /\ cur' = [groups |-> Tail(cur.groups), files |-> files,
                           keep |-> keep_of(have_pref).path]
                /\ Goto("files")
    /\ UNCHANGED <<args, env, prior, fs, iter_paths, history_paths, cnt, report, proc, obs>>

\* for it in files: kept_preferred, would_delete, skipped_user_declined,
\* deleted or error
HandleFile ==
    /\ MainAt("files")
    /\ LET it == Head(cur.files)
           p == it.path
           Set(action) == records' = [records EXCEPT ![p].action = action]
       IN
        /\ IF p = cur.keep
           THEN Set("kept_preferred") /\ UNCHANGED <<fs, obs>>
           ELSE IF args.dry_run
           THEN Set("would_delete") /\ UNCHANGED <<fs, obs>>
           ELSE \E yn \in (IF args.confirm THEN env.answers ELSE {TRUE}) :
                  IF ~yn
                  THEN /\ Set("skipped_user_declined")
                       /\ obs' = [obs EXCEPT !.prompted = @ \cup {p}]
                       /\ fs' = fs
                  ELSE \E ok \in env.remove_ok :
                         /\ Set(IF ok THEN "deleted" ELSE "error")
                         /\ fs' = IF ok THEN Remove(fs, p) ELSE fs
                         /\ obs' = [obs EXCEPT
                                      !.removed = @ \cup {p},
                                      !.prompted = IF args.confirm THEN @ \cup {p} ELSE @]
        /\ cur' = [cur EXCEPT !.files = Tail(@)]
        /\ IF Tail(cur.files) = <<>> THEN Goto("groups") ELSE stack' = stack
    /\ UNCHANGED <<args, env, prior, iter_paths, history_paths, cnt, report, proc>>

\* for rec in records.values(): pending becomes kept_no_duplicate
Sweep ==
    /\ MainAt("groups")
    /\ cur.groups = <<>>
    /\ records' = [p \in DOMAIN records |->
                     IF records[p].action = "pending"
                     THEN [records[p] EXCEPT !.action = "kept_no_duplicate"]
                     ELSE records[p]]
    /\ Goto("log")
    /\ UNCHANGED <<args, env, prior, fs, iter_paths, history_paths, cnt, report, cur, proc, obs>>

\* write_log when args.log, the summary, return 0
Finish ==
    /\ MainAt("log")
    /\ report' = IF args.log THEN [report EXCEPT !.exists = TRUE] ELSE report
    /\ proc' = [proc EXCEPT !.exit_status = 0, !.exit_sig = "none"]
    /\ Goto("exited")
    /\ UNCHANGED <<args, env, prior, fs, iter_paths, history_paths, cnt, records, cur, obs>>

NextDedup ==
    \/ ScanDirectory \/ MakeRecords \/ MakeGroups
    \/ TakeGroup \/ HandleFile
    \/ Sweep \/ Finish

\* the command lines: --filetype video with --preferred-video-type mp4 or avi,
\* --filetype audio with --preferred-audio-type .MP3;
\* --allowed-size-difference 0 or 0.01; --dry-run, --confirm or neither;
\* --no-log in the dry runs.  The directories: any three of a.mkv, a.mp4,
\* A.MP4, b.mkv, a.mp3 and a.dat, of 100, 101 or 102 bytes each, or a path
\* that is not a directory; stat may raise for a.mkv, the prompt may get
\* either answer, os.remove may raise
InitDedup ==
    /\ args \in UNION {
         { [filetype |-> t.filetype, preferred |-> t.preferred,
            allowed_size_difference |-> allowed,
            dry_run |-> m = "dry_run", confirm |-> m = "confirm", log |-> m # "dry_run"] :
             allowed \in {0, 1}, m \in {"dry_run", "confirm", ""} } :
         t \in { [filetype |-> "video", preferred |-> <<"m", "p", "4">>],
                 [filetype |-> "video", preferred |-> <<"a", "v", "i">>],
                 [filetype |-> "audio", preferred |-> <<".", "M", "P", "3">>] } }
    /\ fs \in UNION { [S -> {100, 101, 102}] :
                        S \in { T \in SUBSET { P("a", "", 0, <<"m", "k", "v">>),
                                               P("a", "", 0, <<"m", "p", "4">>),
                                               P("A", "", 0, <<"M", "P", "4">>),
                                               P("b", "", 0, <<"m", "k", "v">>),
                                               P("a", "", 0, <<"m", "p", "3">>),
                                               P("a", "", 0, <<"d", "a", "t">>) } :
                                  Cardinality(T) = 3 } }
    /\ env \in { [is_dir |-> d,
                   unreadable |-> {{}, {P("a", "", 0, <<"m", "k", "v">>)}},
                   answers |-> BOOLEAN, remove_ok |-> BOOLEAN] : d \in BOOLEAN }
    /\ iter_paths = <<>>
    /\ records = <<>>
    /\ cur = [groups |-> <<>>, files |-> <<>>, keep |-> NoPath]
    /\ stack = <<Frame("process", "scan", "")>>
    /\ proc = NewProc(1, <<>>)
    /\ report = NewReport
    /\ obs = [removed |-> {}, prompted |-> {}]
    /\ prior = {}
    /\ history_paths = {}
    /\ cnt = NoCounts

SpecDedup == InitDedup /\ [][NextDedup]_vars

----------------------------------------------------------------------------
(* Properties of the decide / encode / verify / finalize loop *)

\* the candidate in cur has left the loop body: the loop is about to take the next one
AtLoopAfter == MainAt("loop") /\ cur.p # NoPath

\* C1: in every step, an original that exists before the step and not after it
\* is the current candidate's, and for that candidate the encoder exited 0, the
\* output size is below orig_size * (1 - min_saving/100), the re-probed durations
\* matched, --no-delete is off, and --confirm-delete is off or the answer was 'y'.
C1_DeleteOnlyWhenVerified ==
    [][\A p \in OrigPaths :
         (Exists(fs, p) /\ ~Exists(fs', p)) =>
            /\ cur'.p = p
            /\ cur'.ret = 0
            /\ cur'.new_size * 100 < cur'.orig_size * (100 - args.min_saving)
            /\ cur'.od > 0 /\ cur'.nd > 0 /\ Abs(cur'.od - cur'.nd) <= DurTol
            /\ ~args.no_delete
            /\ (args.confirm_delete => cur'.resp = "y")]_vars

\* an original was unlinked after the prompt was answered 'y'
C1_Witness ==
    /\ MainAt("fin_rename")
    /\ ~Exists(fs, cur.p)
    /\ args.confirm_delete /\ cur.resp = "y"

\* C2: once the savings gate has passed, durations_match is true exactly when
\* both re-probed durations are > 0 and differ by at most 0.5 s; when they do
\* not match the original still exists, whatever the flags and the answer.
C2_MismatchKeepsOriginal ==
    MainAt("fin_rename") =>
        LET known == cur.od > 0 /\ cur.nd > 0
            close == cur.od - cur.nd <= DurTol /\ cur.nd - cur.od <= DurTol
        IN  /\ cur.durations_match <=> (known /\ close)
            /\ ~(known /\ close) => Exists(fs, cur.p)

\* 600.0 s against 600.6 s with deletion allowed and unprompted: the original stays
C2_Witness ==
    /\ MainAt("fin_rename")
    /\ cur.od = 6000 /\ cur.nd = 6006
    /\ ~args.no_delete /\ ~args.confirm_delete
    /\ Exists(fs, cur.p)


----------------------------------------------------------------------------
(* Properties of the streaming report under signals *)

\* a header followed by complete rows
ValidCsv(content) ==
    /\ Len(content) >= 1
    /\ content[1].k = "header"
    /\ \A i \in 2..Len(content) : content[i].k = "row"

\* "[", records separated by single commas, no comma before "]", then "]"
ValidJson(content) ==
    LET n == Len(content) IN
    /\ n >= 2
    /\ content[1].k = "[" /\ content[n].k = "]"
    /\ \A i \in 2..(n - 1) : content[i].k = (IF i % 2 = 0 THEN "rec" ELSE ",")
    /\ n > 2 => content[n - 1].k = "rec"

ValidReport ==
    IF args.report_format = "csv" THEN ValidCsv(report.content) ELSE ValidJson(report.content)

\* _open_report had written the header / the opening bracket
Opened(content) == Len(content) > 0 /\ content[1].k \in {"header", "["}

\* C3: when one SIGINT or SIGTERM arrived during the candidate loop (between
\* candidates, during an encode, between the writes of one record) and ended
\* the process, the streaming report file left behind is structurally valid
\* (CSV: header and complete rows; JSON: "[", comma-separated records, no
\* dangling comma, "]").
C3_ReportValidAfterSignal ==
    (MainAt("exited") /\ proc.nsig = 1 /\ proc.exit_sig \in Signals /\ Opened(report.content))
        => ValidReport

\* C4: the closing bracket is in the report at most once and nothing follows
\* it; a closed report file never changes again; a run ended by a signal
\* handler's sys.exit has status 130 for SIGINT and 143 for SIGTERM, and
\* _close_report has run by then.
C4_Brackets ==
    \A i \in 1..Len(report.content) :
        report.content[i].k = "]" => i = Len(report.content)

C4_ExitStatus ==
    proc.exit_sig \in Signals =>
        /\ proc.exit_status = (IF proc.exit_sig = "SIGINT" THEN 130 ELSE 143)
        /\ report.cleanup_done

C4_CloseTakesEffectOnce ==
    /\ [](C4_Brackets /\ C4_ExitStatus)
    /\ [][(report.exists /\ ~report.open) => report'.content = report.content]_vars

\* a second signal arrived while _close_report was running for the first, after
\* it had written the bracket: the second handler's _close_report has returned
C4_Witness ==
    /\ Len(stack) >= 4
    /\ Top.fn = "handler" /\ Top.pc = "exit"
    /\ stack[Len(stack) - 1].fn = "close" /\ stack[Len(stack) - 1].pc = "close"
    /\ args.report_format = "json"
    /\ Len(report.content) >= 3
    /\ report.content[Len(report.content)].k = "]"

----------------------------------------------------------------------------
(* Properties of the failure paths after the encode *)

\* the candidate in cur was handed to the encoder and did not end processed
EncodedNotProcessed == cur.ret # -1 /\ cur.gate # "pass"

\* C5 as claimed: when the loop moves on from a candidate that reached the
\* encode step and did not end processed, its temporary output does not exist.
C5_TmpGone ==
    (AtLoopAfter /\ EncodedNotProcessed) => ~Exists(fs, cur.tmp_path)

\* C5 as amended: when the loop moves on from such a candidate, its temporary
\* output does not exist unless the unlink of it raised OSError.
C5_TmpGoneUnlessUnlinkFailed ==
    (AtLoopAfter /\ EncodedNotProcessed) => (Exists(fs, cur.tmp_path) => cur.unlink_err)

\* an encoder failure whose half-written output was removed
C5_Witness ==
    /\ AtLoopAfter
    /\ cur.ret = 1
    /\ ~cur.unlink_err
    /\ ~Exists(fs, cur.tmp_path)
    /\ TmpPath(cur.p, args.container) = cur.tmp_path

\* C6: the target the finalizer resolved does not exist and is not the
\* original's path, so the rename never lands on an existing file; it is
\* {stem}.transcoded{ext} when that is free, else {stem}.transcoded.k{ext} for
\* the least k >= 1 that is free.
C6_TargetIsFresh ==
    (MainAt("fin_rename") \/ MainAt("fin_move")) =>
        LET t == cur.target_path
            base == P(cur.p.stem, "transcoded", 0, args.container)
        IN  /\ ~Exists(fs, t)
            /\ t # cur.p
            /\ [t EXCEPT !.n = 0] = base
            /\ \A j \in 0..(t.n - 1) : Exists(fs, [base EXCEPT !.n = j])

\* .transcoded and .transcoded.1 were taken: the target is .transcoded.2
C6_Witness ==
    /\ MainAt("fin_rename")
    /\ cur.target_path.n = 2


\* the step leaves the post-encode checks of an encode that exited 0 with a
\* readable output size
GateStep == MainAt("post") /\ cur.ret = 0 /\ cur'.gate \in {"reject", "pass"}

\* output size >= original size * (1 - min_saving/100), both sides times 100
GateRejects == fs[cur.tmp_path] * 100 >= cur.orig_size * (100 - args.min_saving)

\* what C7 states of a rejection, but for the fate of the temporary output
RejectionRecorded ==
    /\ cur'.gate = "reject"
    /\ Structured => (/\ Len(records') = Len(records) + 1
                      /\ records'[Len(records')] = Rec(cur.p, "skipped", "insufficient_saving"))
    /\ Exists(fs', cur.p)
    /\ cnt'.skipped = cnt.skipped + 1
    /\ cnt'.processed = cnt.processed

PassProceeds == cur'.gate = "pass" /\ stack'[1].pc = "fin_rename" /\ cnt' = cnt

\* C7 as claimed: after an encode that exited 0 with a known output size the
\* attempt is rejected exactly when new >= orig * (1 - min_saving/100); a
\* rejection has reason insufficient_saving, the temporary output is gone, the
\* original exists, skipped is incremented and processed is not; otherwise the
\* candidate goes on to duration verification.
C7_GateRejectsAndCleans ==
    [][GateStep =>
         IF GateRejects
         THEN RejectionRecorded /\ ~Exists(fs', cur.tmp_path)
         ELSE PassProceeds]_vars

\* C7 as amended: the same, except that the temporary output is gone unless
\* its unlink raised OSError.
C7_GateRejectsAndTriesToClean ==
    [][GateStep =>
         IF GateRejects
         THEN RejectionRecorded /\ (Exists(fs', cur.tmp_path) => cur'.unlink_err)
         ELSE PassProceeds]_vars

\* equality: an output of 1.9 GB for an original of 2 GB at min-saving 5 was
\* rejected and cleaned up
C7_Witness ==
    /\ cur.gate = "reject"
    /\ cur.orig_size = 40 /\ cur.new_size = 38
    /\ ~Exists(fs, cur.tmp_path)
    /\ Exists(fs, cur.p)

\* the step handles an encoder that exited non-zero
FailStep == MainAt("post") /\ cur.ret # 0

\* what C8 states of an encoder failure, but for the fate of the temporary output
FailureRecorded ==
    /\ Exists(fs', cur.p)
    /\ Structured => (/\ Len(records') = Len(records) + 1
                      /\ records'[Len(records')] = Rec(cur.p, "failed", "ffmpeg_error"))
    /\ cnt' = cnt
    /\ iter_paths' = iter_paths
    /\ stack'[1].pc = (IF streaming THEN "write" ELSE "loop")

\* C8 as claimed: when the encoder exits non-zero the temporary output is
\* deleted, the original stays, the record has action=failed, processed is
\* unchanged and the loop continues with the remaining candidates.
C8_FailureCleansUp ==
    [][FailStep => (FailureRecorded /\ ~Exists(fs', cur.tmp_path))]_vars

\* C8 as amended: the same, except that the temporary output is deleted
\* unless its unlink raised OSError.
C8_FailureTriesToCleanUp ==
    [][FailStep => (FailureRecorded /\ (Exists(fs', cur.tmp_path) => cur'.unlink_err))]_vars

\* a failed candidate was recorded and the loop took up the next one
C8_Witness ==
    /\ MainAt("encode")
    /\ \E i \in 1..Len(records) : records[i].action = "failed" /\ records[i].path # cur.p
    /\ cnt.processed = 0 /\ cnt.total = 2


----------------------------------------------------------------------------
(* Properties of the report records and of the history fast-skip *)

\* C9: in csv/json mode, whenever the loop is about to take the next candidate
\* or has ended, there are as many records as candidates counted as scanned,
\* and every record's action is skipped, dry_run, processed or failed.
C9_OneRecordPerCandidate ==
    (Structured /\ (MainAt("loop") \/ MainAt("end"))) =>
        /\ Len(records) = cnt.total
        /\ \A i \in 1..Len(records) :
             records[i].action \in {"skipped", "dry_run", "processed", "failed"}

\* the step takes a candidate whose lower-cased path is in the history index
HistoryStep ==
    /\ MainAt("loop") /\ ~LimitReached /\ iter_paths # <<>>
    /\ args.use_history
    /\ [Head(iter_paths) EXCEPT !.stem = IF @ = "A" THEN "a" ELSE @] \in history_paths

\* C10: with --use-history a candidate whose lower-cased path is in the history
\* index gets a record skipped/history, total and skipped go up by one each,
\* processed does not, and the step neither probes nor encodes it nor touches
\* the tree.
C10_NeverProbed ==
    \A p \in OrigPaths :
        (args.use_history /\ [p EXCEPT !.stem = IF @ = "A" THEN "a" ELSE @] \in history_paths)
            => p \notin obs.probed \cup obs.encoded

C10_HistoryFastSkip ==
    /\ []C10_NeverProbed
    /\ [][HistoryStep =>
            /\ cnt' = [cnt EXCEPT !.total = @ + 1, !.skipped = @ + 1]
            /\ Structured => records' = Append(records, Rec(Head(iter_paths), "skipped", "history"))
            /\ obs' = obs
            /\ fs' = fs
            /\ iter_paths' = Tail(iter_paths)
            /\ stack'[1].pc \in {"loop", "write"}]_vars

\* A.mkv was fast-skipped on a history entry a.mkv, with nothing probed or encoded
C10_Witness ==
    /\ cur.p = P("A", "", 0, "mkv")
    /\ P("a", "", 0, "mkv") \in history_paths
    /\ \E i \in 1..Len(records) : records[i] = Rec(cur.p, "skipped", "history")
    /\ cur.p \notin obs.probed \cup obs.encoded


----------------------------------------------------------------------------
(* Properties of the history index *)

\* the history index has been built
HistoryLoaded ==
    args.use_history /\ stack[1].pc \notin {"start", "open", "open_hdr", "setup"}

\* every record of the prior report f has action dry_run, summary or blank
OnlySimulated(f) == \A i \in 1..Len(f) : f[i].action \in {"dry_run", "summary", ""}

\* C11: once the index is loaded, the lower-cased path of every skipped record
\* of a prior report that is not simulation-only is in it, and every path in
\* it is the lower-cased path of such a record: simulation-only reports and
\* records with another action add nothing.
C11_IndexIsSkippedRecords ==
    HistoryLoaded =>
        /\ \A f \in prior : \A i \in 1..Len(f) :
             (~OnlySimulated(f) /\ f[i].action = "skipped" /\ f[i].path # NoPath)
                => [f[i].path EXCEPT !.stem = IF @ = "A" THEN "a" ELSE @] \in history_paths
        /\ \A k \in history_paths : \E f \in prior : \E i \in 1..Len(f) :
             /\ ~OnlySimulated(f)
             /\ f[i].action = "skipped"
             /\ [f[i].path EXCEPT !.stem = IF @ = "A" THEN "a" ELSE @] = k

\* a simulation-only report and a report with A.mkv skipped and a.mp4 failed
\* were loaded: the index is {a.mkv}
C11_Witness ==
    /\ HistoryLoaded
    /\ \E f \in prior : OnlySimulated(f)
    /\ \E f \in prior : \E i \in 1..Len(f) :
         f[i] = Row(P("A", "", 0, "mkv"), "skipped")
    /\ history_paths = {P("a", "", 0, "mkv")}


----------------------------------------------------------------------------
(* Properties of a second run over the first run's report *)

\* the paths recorded with action=skipped in the rows of a report
SkippedIn(rows) == { rows[i].path : i \in { j \in 1..Len(rows) : rows[j].action = "skipped" } }

SecondRunOver == proc.run = 2 /\ MainAt("end")

\* C12 as claimed: when the second run has ended, the candidates it skipped
\* are exactly the paths the first run recorded with action=skipped.
C12_SameSkipSet ==
    SecondRunOver => SkippedIn(records) = SkippedIn(proc.prev)

\* C12 as amended: in the second run every record for a path the first run
\* recorded as skipped is skipped with reason history, such a path is neither
\* probed nor encoded, and when the second run was not stopped by the cap all
\* of them are skipped again.
C12_SkippedStaySkipped ==
    proc.run = 2 =>
        /\ \A i \in 1..Len(records) :
             records[i].path \in SkippedIn(proc.prev)
                => (records[i].action = "skipped" /\ records[i].reason = "history")
        /\ SkippedIn(proc.prev) \cap (obs.probed \cup obs.encoded) = {}
        /\ (SecondRunOver /\ ~LimitReached) => SkippedIn(proc.prev) \subseteq SkippedIn(records)

\* the second run ended having fast-skipped A.mkv, which the first run skipped
C12_Witness ==
    /\ SecondRunOver
    /\ P("A", "", 0, "mkv") \in SkippedIn(proc.prev)
    /\ \E i \in 1..Len(records) : records[i] = Rec(P("A", "", 0, "mkv"), "skipped", "history")


----------------------------------------------------------------------------
(* Properties of the skip decision *)

\* the step takes the next candidate and it is not fast-skipped by history
DecisionStep ==
    /\ MainAt("loop") /\ ~LimitReached /\ iter_paths # <<>>
    /\ ~(args.use_history /\
         [Head(iter_paths) EXCEPT !.stem = IF @ = "A" THEN "a" ELSE @] \in history_paths)
    /\ cur'.p = Head(iter_paths)

\* the step ends the candidate as skipped for reason r without encoding it
SkippedFor(r) ==
    /\ cur'.skip_reason = r
    /\ cnt' = [cnt EXCEPT !.total = @ + 1, !.skipped = @ + 1]
    /\ Structured => records' = Append(records, Rec(Head(iter_paths), "skipped", r))
    /\ stack'[1].pc \in {"loop", "write"}
    /\ obs'.encoded = obs.encoded
    /\ fs' = fs

\* the step lets the candidate proceed to the encode
Proceeds ==
    /\ cur'.skip_reason = ""
    /\ stack'[1].pc = "encode"
    /\ cnt' = [cnt EXCEPT !.total = @ + 1]
    /\ records' = records

\* C13: with no --min-bitrate, a candidate not fast-skipped by history whose
\* size is below min_bytes is skipped with reason size_below_threshold and is
\* never handed to the encoder; one whose size is min_bytes or more is not
\* skipped (it proceeds).
C13_SizeRule ==
    /\ [][(DecisionStep /\ ~args.has_min_bps) =>
            IF fs[Head(iter_paths)] < args.min_bytes
            THEN SkippedFor("size_below_threshold")
            ELSE Proceeds]_vars
    /\ []((MainAt("encode") /\ ~args.has_min_bps) => cur.orig_size >= args.min_bytes)

\* a source of exactly min_bytes went on to the encoder with no --min-bitrate
C13_Witness ==
    /\ MainAt("encode")
    /\ ~args.has_min_bps
    /\ cur.orig_size = args.min_bytes

\* C14: with --min-bitrate set and the probe giving a duration, a candidate
\* whose bitrate size * 8 / dur is strictly below min_bps is skipped with
\* reason bitrate_below_threshold whatever its size, and no candidate with
\* such a bitrate is handed to the encoder.
C14_BitrateRule ==
    /\ [][(/\ DecisionStep
           /\ args.has_min_bps
           /\ cur'.dur > 0
           /\ fs[Head(iter_paths)] * 4000 < args.min_bps * cur'.dur)
            => SkippedFor("bitrate_below_threshold")]_vars
    /\ []((MainAt("encode") /\ args.has_min_bps /\ cur.dur > 0)
            => cur.orig_size * 4000 >= args.min_bps * cur.dur)

\* a source of 2 GB, above min_bytes, was skipped for its bitrate
C14_Witness ==
    /\ cur.skip_reason = "bitrate_below_threshold"
    /\ cur.orig_size > args.min_bytes
    /\ cur.dur > 0
    /\ cnt.skipped > 0

\* C15: with --min-bitrate set and the probe giving no duration, a candidate
\* is skipped with reason no_duration under --bitrate-only; without
\* --bitrate-only the size check alone decides: size_below_threshold when the
\* size is below min_bytes, and the candidate proceeds otherwise.
C15_UnknownBitrate ==
    [][(DecisionStep /\ args.has_min_bps /\ cur'.dur = 0) =>
        IF args.bitrate_only
        THEN SkippedFor("no_duration")
        ELSE IF fs[Head(iter_paths)] < args.min_bytes
             THEN SkippedFor("size_below_threshold")
             ELSE Proceeds]_vars

\* without --bitrate-only a source of unknown bitrate and of min_bytes or more
\* went on to the encoder
C15_Witness ==
    /\ MainAt("encode")
    /\ args.has_min_bps /\ ~args.bitrate_only
    /\ obs.probed # {}
    /\ cur.dur = 0
    /\ cur.orig_size >= args.min_bytes

\* the bitrate of the next candidate is known and at or above min_bps
KnownAtOrAbove ==
    /\ args.has_min_bps
    /\ cur'.dur > 0
    /\ fs[Head(iter_paths)] * 4000 >= args.min_bps * cur'.dur

\* C16 as stated: the size rule applies whenever no earlier rule fired, so a
\* candidate whose bitrate is known and at or above min_bps and whose size is
\* below min_bytes is skipped with reason size_below_threshold.
C16_SizeRuleAfterBitrate ==
    [][(DecisionStep /\ KnownAtOrAbove /\ fs[Head(iter_paths)] < args.min_bytes)
        => SkippedFor("size_below_threshold")]_vars

\* C16 (amended): the size rule applies only when --min-bitrate is not set, or
\* when it is set, the bitrate is unknown and --bitrate-only is off.  A
\* candidate whose bitrate is known and at or above min_bps proceeds whatever
\* its size, and a candidate proceeds only when no rule that applies to it
\* matched.
C16_SizeRuleIsFallback ==
    /\ [][(DecisionStep /\ KnownAtOrAbove) => Proceeds]_vars
    /\ [][(DecisionStep /\ Proceeds) =>
            IF args.has_min_bps /\ cur'.dur > 0
            THEN fs[Head(iter_paths)] * 4000 >= args.min_bps * cur'.dur
            ELSE /\ ~(args.has_min_bps /\ args.bitrate_only)
                 /\ fs[Head(iter_paths)] >= args.min_bytes]_vars
    /\ [][(DecisionStep /\ cur'.skip_reason = "size_below_threshold") =>
            /\ ~(args.has_min_bps /\ cur'.dur > 0)
            /\ ~(args.has_min_bps /\ args.bitrate_only)
            /\ fs[Head(iter_paths)] < args.min_bytes]_vars

\* a source below min_bytes whose known bitrate is at or above min_bps went
\* on to the encoder
C16_Witness ==
    /\ MainAt("encode")
    /\ args.has_min_bps
    /\ cur.dur > 0
    /\ cur.orig_size * 4000 >= args.min_bps * cur.dur
    /\ cur.orig_size < args.min_bytes


----------------------------------------------------------------------------
(* Properties of --largest-first with --max-transcodes *)

Capped == args.largest_first /\ args.has_max

\* the loop over iter_paths was entered
PastSetup == stack[1].pc \notin {"start", "open", "open_hdr", "setup"}

\* how many entries of the pre-scan the loop has taken
Taken == Len(obs.pairs) - Len(iter_paths)

\* the verdict on the i-th entry of the pre-scan is proceed
ProceedAt(i) ==
    /\ obs.pairs[i].sz >= args.min_bytes
    /\ ~(args.use_history /\
         [obs.pairs[i].p EXCEPT !.stem = IF @ = "A" THEN "a" ELSE @] \in history_paths)

ProcessedPaths ==
    { records[i].path : i \in { j \in 1..Len(records) : records[j].action = "processed" } }

\* the first n entries of the pre-scan whose verdict is proceed
LargestProceeding(n) ==
    { obs.pairs[i].p : i \in { j \in 1..Len(obs.pairs) :
        ProceedAt(j) /\ Cardinality({ k \in 1..j : ProceedAt(k) }) <= n } }

\* C17 as stated: the candidates that end the run with action=processed are
\* exactly the N largest candidates whose verdict is proceed.
C17_ExactlyNLargest ==
    (Capped /\ MainAt("end")) => ProcessedPaths = LargestProceeding(args.max_transcodes)

\* the pre-scan list holds every candidate with its size, largest first, and
\* is complete while nothing has been scanned, probed or encoded
PreScanFirst ==
    [][MainAt("setup") /\ args.largest_first =>
        /\ cnt.total = 0 /\ obs.probed = {} /\ obs.encoded = {}
        /\ { obs'.pairs[i].p : i \in 1..Len(obs'.pairs) }
             = { q \in DOMAIN fs : q.ext \in {"mkv", "mp4"} /\ q.tag = "" }
        /\ \A i \in 1..Len(obs'.pairs) : obs'.pairs[i].sz = fs[obs'.pairs[i].p]
        /\ \A i, j \in 1..Len(obs'.pairs) : i < j => obs'.pairs[i].sz >= obs'.pairs[j].sz
        /\ iter_paths' = [i \in 1..Len(obs'.pairs) |-> obs'.pairs[i].p]]_vars

\* candidates are taken one at a time from the head of the pre-scan order,
\* and none is taken once N have been processed
TakenInOrder ==
    [][(Capped /\ PastSetup /\ iter_paths' # iter_paths) =>
        /\ iter_paths' = Tail(iter_paths)
        /\ cur'.p = Head(iter_paths)
        /\ cnt.processed < args.max_transcodes]_vars

\* C17 (amended): with --largest-first and --max-transcodes N the pre-scan
\* completes before any candidate is handled, candidates are handled in
\* non-increasing order of pre-scan size, and the run takes no further
\* candidate once N have ended as processed.  The processed candidates are at
\* most N, each has verdict proceed, and a candidate with verdict proceed that
\* is not processed either was handled before the loop ended and did not
\* succeed, or was left because N others were processed before it.
C17_LargestFirstUntilCap ==
    /\ PreScanFirst
    /\ TakenInOrder
    /\ []((Capped /\ PastSetup) =>
            /\ cnt.processed <= args.max_transcodes
            /\ Cardinality(ProcessedPaths) = cnt.processed
            /\ \A k \in 1..Len(iter_paths) : iter_paths[k] = obs.pairs[Taken + k].p
            /\ ProcessedPaths \subseteq { obs.pairs[i].p : i \in { j \in 1..Taken : ProceedAt(j) } })
    /\ []((Capped /\ MainAt("end")) =>
            /\ iter_paths # <<>> => cnt.processed = args.max_transcodes
            /\ (\A i \in 1..Taken : ProceedAt(i) => obs.pairs[i].p \in ProcessedPaths)
                 => ProcessedPaths = LargestProceeding(args.max_transcodes))

\* with N = 1 the largest source failed, the second largest was processed and
\* the third was never taken
C17_Witness ==
    /\ Capped /\ MainAt("end")
    /\ args.max_transcodes = 1
    /\ Len(obs.pairs) = 3
    /\ obs.pairs[1].sz > obs.pairs[2].sz
    /\ ProceedAt(1) /\ ProceedAt(2)
    /\ ProcessedPaths = {obs.pairs[2].p}
    /\ Len(iter_paths) = 1


----------------------------------------------------------------------------
(* Properties of the exit status *)

\* the two texts are equal up to the case of their letters
Caseless(s, t) ==
    /\ Len(s) = Len(t)
    /\ \A i \in 1..Len(s) :
         \/ s[i] = t[i]
         \/ {s[i], t[i]} \in {{"k", "K"}, {"m", "M"}, {"g", "G"}, {"t", "T"},
                               {"p", "P"}, {"b", "B"}, {"s", "S"}, {"x", "X"}}

\* --min-size as given is not a number followed by one of the size suffixes
SizeRejected ==
    \/ args.min_size.kind # "num"
    \/ ~\E t \in {<<>>, <<"B">>, <<"K">>, <<"K", "B">>, <<"M">>, <<"M", "B">>,
                  <<"G">>, <<"G", "B">>, <<"T">>, <<"T", "B">>} : Caseless(args.min_size.suf, t)

\* --min-bitrate was given a non-empty value
RateGiven == args.min_bitrate.kind \notin {"none", "empty"}

\* that value is not a number followed by [kmg]?b?p?s?
RateRejected ==
    /\ RateGiven
    /\ \/ args.min_bitrate.kind # "num"
       \/ ~\E t \in { k \o b \o p \o e :
                        k \in {<<>>, <<"k">>, <<"m">>, <<"g">>}, b \in {<<>>, <<"b">>},
                        p \in {<<>>, <<"p">>}, e \in {<<>>, <<"s">>} } :
              Caseless(args.min_bitrate.suf, t)

\* malformed --min-size or --min-bitrate, --bitrate-only without --min-bitrate
ConfigError == SizeRejected \/ RateRejected \/ (args.bitrate_only /\ ~RateGiven)

\* no candidate was scanned or probed, no report file was opened
NothingStarted ==
    /\ cnt.total = 0 /\ iter_paths = <<>> /\ records = <<>>
    /\ obs.probed = {} /\ obs.encoded = {}
    /\ ~report.exists /\ ~proc.handlers_on

\* the exit status is s, once there is one
StatusIs(s) == proc.exit_status \in {-1, s}

\* C18 as stated: a configuration error ends the run with status 2 before
\* anything is scanned or opened, a missing encoder binary ends it with
\* status 1, and a run that reaches the end of the loop exits with status 0.
C18_ThreeStatuses ==
    /\ ConfigError => (NothingStarted /\ StatusIs(2))
    /\ ~env.ffmpeg => StatusIs(1)
    /\ (MainAt("finalize") /\ cnt.total > 0) => proc.exit_status = 0

\* C18 (amended): the encoder binary is looked up first, so a missing
\* encoder ends the run with status 1 whatever the command line; with the
\* encoder present, a configuration error (a --min-size or a non-empty
\* --min-bitrate the parser rejects, --bitrate-only without a non-empty
\* --min-bitrate, a path that is not a directory) ends it with status 2; in
\* both cases nothing was scanned and no report file was opened.  Every other
\* run, absent a signal, reaches the end of the loop and exits with status 0
\* whatever happened to its candidates.
C18_EncoderFirstThenConfig ==
    /\ ~env.ffmpeg => (NothingStarted /\ StatusIs(1))
    /\ (env.ffmpeg /\ (ConfigError \/ ~env.root_is_dir)) => (NothingStarted /\ StatusIs(2))
    /\ (env.ffmpeg /\ ~ConfigError /\ env.root_is_dir) => StatusIs(0)
    /\ MainAt("end") => (env.ffmpeg /\ ~ConfigError /\ env.root_is_dir)
    /\ MainAt("exited") => proc.exit_status # -1

\* a run whose only candidate failed to encode exited with status 0
C18_Witness ==
    /\ MainAt("exited")
    /\ proc.exit_status = 0
    /\ cnt.total > 0 /\ cnt.processed = 0
    /\ \E i \in 1..Len(records) : records[i].action = "failed"


----------------------------------------------------------------------------
(* Properties of the encoder list and of the backend selection *)

\* what the one query of the process amounts to: its names, none if it raised
QueriedNames == IF obs.queried[1].ok THEN obs.queried[1].names ELSE {}

\* C19: over the calls of _ffmpeg_encoders in one process the encoder is
\* asked for its list at most once; the first call fills the cache and every
\* call returns the set of that one query, the empty set when the query
\* failed; a failed query does not end the run.
C19_QueriedOnce ==
    /\ Len(obs.queried) <= 1
    /\ proc.encoders_cache.known <=> obs.returned # <<>>
    /\ obs.returned # <<>> =>
        /\ Len(obs.queried) = 1
        /\ proc.encoders_cache.names = QueriedNames
        /\ \A i \in 1..Len(obs.returned) : obs.returned[i] = QueriedNames
    /\ obs.queried # <<>> => obs.returned # <<>> /\ proc.exit_status \in {-1, 0}

\* the one query failed and _ffmpeg_encoders was called a second time
C19_Witness ==
    /\ Len(obs.returned) = 2
    /\ Len(obs.queried) = 1
    /\ ~obs.queried[1].ok
    /\ Cardinality(obs.encoded) = 2


\* the codec family prefix of the hardware encoder identifiers
Family == IF args.codec = "libx265" THEN "hevc_" ELSE "h264_"

PreferenceOrder == <<"nvenc", "qsv", "amf">>

\* the video encoder backend selection must give under --gpu auto for the
\* capability set encs
AutoChoice(encs) ==
    LET present == { i \in 1..Len(PreferenceOrder) : Family \o PreferenceOrder[i] \in encs }
    IN  IF present = {}
        THEN args.codec
        ELSE Family \o PreferenceOrder[CHOOSE i \in present : \A j \in present : i <= j]

\* C20: the encoder command of a candidate uses the requested software codec
\* under --gpu none; the named backend's encoder of the codec family under
\* --gpu nvenc, qsv or amf, the encoder list never being consulted; and under
\* --gpu auto the first of nvenc, qsv, amf whose identifier is in the set
\* _ffmpeg_encoders returned, the software codec when none is.
C20_BackendSelection ==
    /\ args.gpu # "auto" => (obs.returned = <<>> /\ obs.queried = <<>>)
    /\ MainAt("encode") =>
        cur.vcodec = IF args.gpu = "none" THEN args.codec
                     ELSE IF args.gpu = "auto"
                          THEN AutoChoice(obs.returned[Len(obs.returned)])
                          ELSE Family \o args.gpu

\* --codec libx265 --gpu auto with hevc_qsv and hevc_amf listed and hevc_nvenc
\* not: the command uses hevc_qsv
C20_Witness ==
    /\ MainAt("encode")
    /\ args.gpu = "auto" /\ args.codec = "libx265"
    /\ obs.returned # <<>>
    /\ {"hevc_qsv", "hevc_amf"} \subseteq obs.returned[Len(obs.returned)]
    /\ "hevc_nvenc" \notin obs.returned[Len(obs.returned)]
    /\ cur.vcodec = "hevc_qsv"


----------------------------------------------------------------------------
(* Properties of the threshold parsers *)

SizeSuffixIs(ts) == \E t \in ts : Caseless(args.min_size.suf, t)

RateSuffixIs(ts) == \E t \in ts : Caseless(args.min_bitrate.suf, t)

\* --min-size was parsed
SizeParsed == MainAt("min_bitrate") \/ MainAt("parsed")

\* --min-bitrate was given and parsed
RateParsed == MainAt("parsed") /\ args.min_bitrate.kind \notin {"none", "empty"}

\* C21: _parse_size scales by powers of 1024, so 1GB, 1024MB and 1048576KB
\* all give 1,073,741,824 bytes; _parse_bitrate scales by powers of 1000, so
\* 1M and 1000k give 1,000,000 and 1Mbps gives what 1M gives; a value that is
\* not a number followed by a suffix of the option's grammar is rejected with
\* exit status 2.
C21_ThresholdParsing ==
    /\ SizeParsed =>
        /\ args.min_size.kind = "num"
        /\ SizeSuffixIs({<<>>, <<"B">>, <<"K">>, <<"K", "B">>, <<"M">>, <<"M", "B">>,
                         <<"G">>, <<"G", "B">>})
        /\ SizeSuffixIs({<<>>, <<"B">>}) => args.min_bytes = args.min_size.num
        /\ SizeSuffixIs({<<"K">>, <<"K", "B">>}) => args.min_bytes = args.min_size.num * 1024
        /\ SizeSuffixIs({<<"M">>, <<"M", "B">>}) => args.min_bytes = args.min_size.num * 1048576
        /\ SizeSuffixIs({<<"G">>, <<"G", "B">>}) => args.min_bytes = args.min_size.num * 1073741824
        /\ (\/ args.min_size.num = 1 /\ SizeSuffixIs({<<"G", "B">>})
            \/ args.min_size.num = 1024 /\ SizeSuffixIs({<<"M", "B">>})
            \/ args.min_size.num = 1048576 /\ SizeSuffixIs({<<"K", "B">>}))
              => args.min_bytes = 1073741824
    /\ RateParsed =>
        /\ args.min_bitrate.kind = "num"
        /\ args.has_min_bps
        /\ RateSuffixIs({ k \o b \o p \o e :
                            k \in {<<>>, <<"k">>, <<"m">>, <<"g">>}, b \in {<<>>, <<"b">>},
                            p \in {<<>>, <<"p">>}, e \in {<<>>, <<"s">>} })
        /\ RateSuffixIs({<<"k">>, <<"k", "b">>, <<"k", "b", "p", "s">>})
             => args.min_bps = args.min_bitrate.num * 1000
        /\ RateSuffixIs({<<"m">>, <<"m", "b">>, <<"m", "b", "p", "s">>})
             => args.min_bps = args.min_bitrate.num * 1000000
        /\ RateSuffixIs({<<"g">>, <<"g", "b">>, <<"g", "b", "p", "s">>})
             => args.min_bps = args.min_bitrate.num * 1000000000
        /\ (\/ args.min_bitrate.num = 1 /\ RateSuffixIs({<<"m">>, <<"m", "b", "p", "s">>})
            \/ args.min_bitrate.num = 1000 /\ RateSuffixIs({<<"k">>}))
              => args.min_bps = 1000000
    /\ MainAt("finalize") => proc.exit_status = 2

\* 1Mbps was parsed to 1,000,000 bits per second
C21_Witness ==
    /\ MainAt("parsed")
    /\ args.min_bitrate = Arg("num", 1, <<"M", "b", "p", "s">>)
    /\ args.min_bps = 1000000
    /\ args.min_bytes = 1073741824


----------------------------------------------------------------------------
(* Properties of the move to the destination *)

\* the step appends a record with action=processed
RecordsProcessed ==
    /\ Len(records') = Len(records) + 1
    /\ records'[Len(records')].action = "processed"

\* C22: when the rename and the fallback move both fail the run goes on with
\* the next candidate, and a record with action=processed names an
\* output_path (target_path) that exists when the record is written.
C22_ProcessedOutputExists ==
    [][RecordsProcessed =>
        /\ cur.target_path \in DOMAIN fs'
        /\ stack'[1].pc \in {"loop", "write"}]_vars


\* the step removes the original of the current candidate
OriginalUnlinked == cur.p \in DOMAIN fs /\ cur.p \notin DOMAIN fs'

\* the step puts the temporary output at the destination
OutputMoved ==
    /\ cur.target_path.stem # ""
    /\ cur.tmp_path \in DOMAIN fs /\ cur.tmp_path \notin DOMAIN fs'
    /\ cur.target_path \in DOMAIN fs'

\* C23: the original is unlinked only when it is being deleted, and then
\* before the rename is attempted, the temporary output still in place; the
\* output reaches the destination by the rename or, only after the rename
\* failed and changed nothing, by the fallback move; a preserved original is
\* never unlinked.
C23_UnlinkThenRenameThenMove ==
    /\ [][OriginalUnlinked =>
            /\ MainAt("post") /\ stack'[1].pc = "fin_rename"
            /\ ~cur'.effect_no_delete
            /\ cur.tmp_path \in DOMAIN fs']_vars
    /\ [][OutputMoved => (MainAt("fin_rename") \/ MainAt("fin_move"))]_vars
    /\ [][(stack'[1].pc = "fin_move" /\ ~MainAt("fin_move")) =>
            (MainAt("fin_rename") /\ fs' = fs)]_vars
    /\ []((MainAt("fin_rename") \/ MainAt("fin_move")) =>
            (cur.effect_no_delete => cur.p \in DOMAIN fs))

\* the original was unlinked, the rename failed and the fallback move is next
C23_Witness ==
    /\ MainAt("fin_move")
    /\ ~cur.effect_no_delete
    /\ cur.p \notin DOMAIN fs
    /\ cur.tmp_path \in DOMAIN fs
    /\ cur.target_path \notin DOMAIN fs


----------------------------------------------------------------------------
(* Properties of a failing write on the streaming report *)

WriteStep == MainAt("write") \/ MainAt("write_body")

\* the records that reached the report file
Written == Len(SelectSeq(report.content, LAMBDA t : t.k \in {"row", "rec"}))

\* C24: a write on the streaming report that raises is swallowed: the call of
\* _write_record ends, the run goes on with the loop, the counters and the
\* records kept in memory are what they would be without the failure, and
\* every later record is still written: at each turn of the loop the report
\* holds every record of the run but those whose write raised, and the run
\* ends with every candidate scanned and exit status 0.
C24_WriteErrorSwallowed ==
    /\ [][WriteStep =>
            /\ cnt' = cnt /\ records' = records /\ fs' = fs /\ iter_paths' = iter_paths
            /\ stack'[1].pc \in {"loop", "write_body"}
            /\ obs'.io_failed > obs.io_failed =>
                 (stack'[1].pc = "loop" /\ report' = report)]_vars
    /\ [](streaming /\ (MainAt("loop") \/ MainAt("end")) =>
            Written + obs.io_failed = Len(records))
    /\ [](MainAt("end") => (iter_paths = <<>> /\ cnt.total >= Len(records)))
    /\ [](proc.exit_status \in {-1, 0})

\* the write of the first record raised and the second record was written
C24_Witness ==
    /\ MainAt("end")
    /\ Len(records) = 2
    /\ obs.io_failed = 1
    /\ Written = 1
    /\ \E i \in 1..Len(report.content) : report.content[i].rec = records[2]
    /\ cnt.total = 2

----------------------------------------------------------------------------
(* Properties of the estimate *)

\* the configured audio bitrate in units of 8000 bit/s; 0 when it cannot be parsed
AudioRate ==
    CASE args.audio_bitrate = Arg("num", 160, <<"k">>) -> 20
      [] args.audio_bitrate = Arg("num", 8, <<"M">>) -> 1000
      [] OTHER -> 0

\* the ratio in percent: --est-ratio, else 0.6 for libx265 and 0.85 for libx264
RatioInUse ==
    IF args.has_est_ratio THEN args.est_ratio
    ELSE IF args.codec = "libx265" THEN 60 ELSE 85

Largest(x, y) == IF x >= y THEN x ELSE y

\* C25: the estimate of a candidate is unknown whenever its duration is
\* unknown; in ratio mode with a known duration the estimated output size is
\* max(implied bitrate x ratio, audio bitrate) x duration / 8, which in units
\* of 100 bytes is the larger of size x ratio and audio rate x duration, with
\* the ratio 0.6 for libx265 and 0.85 for libx264 unless --est-ratio is
\* given, and the estimated saving is the size minus that, negative or not.
C25_RatioEstimate ==
    [][DecisionStep =>
        /\ cur'.dur = 0 => ~cur'.est.known
        /\ (args.est_mode = "ratio" /\ cur'.dur > 0) =>
             /\ cur'.est.known
             /\ cur'.est.out = Largest(fs[Head(iter_paths)] * RatioInUse * 5000,
                                       AudioRate * cur'.dur)
             /\ cur'.est.saved = fs[Head(iter_paths)] * 500000 - cur'.est.out]_vars

\* a 0.5 GB candidate of 600 s under --codec libx264 and --audio-bitrate 8M:
\* the audio bitrate is the larger one and the estimated saving is negative
C25_Witness ==
    /\ args.est_mode = "ratio" /\ ~args.has_est_ratio /\ args.codec = "libx264"
    /\ cur.p # NoPath /\ cur.dur = 6000 /\ cur.orig_size = 10
    /\ cur.est.known
    /\ cur.est.out = 1000 * 6000
    /\ cur.est.out > 10 * 85 * 5000
    /\ cur.est.saved < 0


\* the configured target video bitrate in units of 8000 bit/s; 0 when there is none
TargetRate ==
    CASE args.est_target_v_bitrate = Arg("num", 2, <<"M">>) -> 250
      [] OTHER -> 0

\* C26 as stated: under --est-mode target every candidate with a known
\* duration gets the estimated output size (target video bitrate + audio
\* bitrate) x duration / 8, whatever its size.
C26_TargetIgnoresSource ==
    [][(DecisionStep /\ args.est_mode = "target" /\ cur'.dur > 0) =>
        /\ cur'.est.known
        /\ cur'.est.out = (TargetRate + AudioRate) * cur'.dur]_vars

\* C26: under --est-mode target with an --est-target-v-bitrate that parses,
\* every candidate with a known duration gets the estimated output size
\* (target video bitrate + audio bitrate) x duration / 8, whatever its size,
\* the audio bitrate counting as 0 when it cannot be parsed; with no
\* --est-target-v-bitrate the estimate is the one of ratio mode, and with one
\* that cannot be parsed the estimate is unknown.
C26_TargetEstimate ==
    [][(DecisionStep /\ args.est_mode = "target" /\ cur'.dur > 0) =>
        CASE args.est_target_v_bitrate = Arg("num", 2, <<"M">>) ->
                /\ cur'.est.known
                /\ cur'.est.out = (250 + AudioRate) * cur'.dur
          [] args.est_target_v_bitrate.kind = "none" ->
                /\ cur'.est.known
                /\ cur'.est.out = Largest(fs[Head(iter_paths)] * RatioInUse * 5000,
                                          AudioRate * cur'.dur)
          [] OTHER -> ~cur'.est.known]_vars

\* a 0.5 GB candidate of 600 s under a target of 2M and audio of 160k: the
\* estimate is 162 MB, which is neither 0.6 of its size nor the audio floor
C26_Witness ==
    /\ args.est_mode = "target"
    /\ args.est_target_v_bitrate = Arg("num", 2, <<"M">>)
    /\ args.audio_bitrate = Arg("num", 160, <<"k">>)
    /\ cur.p # NoPath /\ cur.dur = 6000 /\ cur.orig_size = 10
    /\ cur.est.known
    /\ cur.est.out = 270 * 6000
    /\ cur.est.saved = 10 * 500000 - 270 * 6000


\* the verdict on a candidate of the given size and probed duration, from the
\* two thresholds alone: the reason it is skipped for, or "" when it proceeds
ThresholdVerdict(size, dur) ==
    IF args.has_min_bps /\ dur > 0
    THEN IF size * 4000 < args.min_bps * dur THEN "bitrate_below_threshold" ELSE ""
    ELSE IF args.has_min_bps /\ args.bitrate_only THEN "no_duration"
    ELSE IF size < args.min_bytes THEN "size_below_threshold" ELSE ""

\* C27: the estimate never gates the decision.  In a run that is not a dry
\* run, under every estimator configuration (--est-mode, --est-ratio,
\* --est-target-v-bitrate), the verdict on a candidate and its skip reason
\* are the ones the size and bitrate thresholds give for its size and probed
\* duration, so two runs that differ only in the estimator configuration
\* agree on them; the candidate is handed to the encoder exactly when that
\* verdict is to proceed, and whether it is probed does not depend on the
\* estimator configuration either.
C27_EstimateNeverGates ==
    /\ [][(DecisionStep /\ ~args.dry_run) =>
            LET p == Head(iter_paths)
                verdict == ThresholdVerdict(fs[p], cur'.dur)
            IN  /\ cur'.skip_reason = verdict
                /\ (verdict = "") <=> (stack'[1].pc = "encode")
                /\ verdict # "" =>
                     /\ records' = Append(records, Rec(p, "skipped", verdict))
                     /\ cnt'.skipped = cnt.skipped + 1
                /\ (p \in obs'.probed) <=>
                     (args.has_min_bps \/ args.print_bitrate
                      \/ args.report_format \in {"csv", "json"} \/ p \in obs.probed)]_vars
    /\ [][\A p \in obs'.encoded \ obs.encoded :
            /\ p = cur.p
            /\ cur.skip_reason = ""
            /\ ThresholdVerdict(cur.orig_size, cur.dur) = ""]_vars

\* a 2 GB candidate of 600 s goes to the encoder although --est-ratio 1.2
\* estimates a loss for it
C27_Witness ==
    /\ ~args.dry_run /\ args.est_mode = "ratio" /\ args.has_est_ratio
    /\ MainAt("encode")
    /\ cur.orig_size = 40 /\ cur.dur = 6000
    /\ cur.est.known /\ cur.est.saved < 0


----------------------------------------------------------------------------
(* Properties of the names of the outputs *)

Markers == {"transcoded", "transcoding"}

\* C28: every file a step creates is {stem}.transcoding{ext} or
\* {stem}.transcoded{ext} of the candidate in hand, or a numbered variant of
\* one of them, so its name carries a marker; and no entry with a marker in
\* its name is ever taken as a candidate, probed or given to the encoder as
\* input, whether the traversal comes to it later in the same scan or a
\* later run finds it in the tree.
C28_OutputsNeverCandidates ==
    /\ [][\A p \in DOMAIN fs' \ DOMAIN fs :
            /\ p.tag \in Markers
            /\ p.stem = cur.p.stem
            /\ p.ext = args.container
            /\ p \in {cur.tmp_path, cur.target_path}]_vars
    /\ [](\A i \in 1..Len(iter_paths) : iter_paths[i].tag \notin Markers)
    /\ [](cur.p # NoPath => cur.p.tag \notin Markers)
    /\ [](\A p \in obs.probed \cup obs.encoded : p.tag \notin Markers)
    /\ [](\A i \in 1..Len(records) : records[i].path.tag \notin Markers)

\* the second run has re-encoded the source that --no-delete kept: the first
\* run's output is in the tree it scanned, its own output got a number, the
\* traversal came to it while the other source was still to come, and only
\* the source has been given to the encoder
C28_Witness ==
    /\ proc.run = 2
    /\ MainAt("loop")
    /\ iter_paths = <<P("a", "", 0, "mp4")>>
    /\ P("a", "transcoded", 0, "mkv") \in DOMAIN fs
    /\ P("a", "transcoded", 1, "mkv") \in DOMAIN fs
    /\ P("a", "transcoded", 1, "mkv") \in obs.listed
    /\ obs.encoded = {P("a", "", 0, "mkv")}


----------------------------------------------------------------------------
(* Properties of the history index during the run *)

\* the lower-cased paths of the skipped records of the reports of earlier runs
PriorIndex ==
    UNION { { [f[i].path EXCEPT !.stem = IF @ = "A" THEN "a" ELSE @] :
                i \in { j \in 1..Len(f) : f[j].action = "skipped" /\ f[j].path # NoPath } } :
            f \in { g \in prior : ~OnlySimulated(g) } }

\* the step takes the next candidate from the scan
TakeStep ==
    /\ MainAt("loop") /\ ~LimitReached /\ iter_paths # <<>>
    /\ cur'.p = Head(iter_paths)

\* the step ends the candidate as skipped by history, without probing it
SkippedByHistory ==
    /\ cnt'.skipped = cnt.skipped + 1
    /\ cur'.skip_reason = ""
    /\ obs'.probed = obs.probed
    /\ stack'[1].pc \in {"loop", "write"}
    /\ Structured => records' = Append(records, Rec(Head(iter_paths), "skipped", "history"))

\* C29: the history index is built in one step, before the first candidate
\* is taken, from the reports of earlier runs alone: the report this run has
\* opened before adds no path; no later step changes the index; and whether
\* a candidate is skipped by history is decided by the earlier runs' skipped
\* records, whatever this run has recorded so far.
C29_IndexFixedForTheRun ==
    /\ [][history_paths' # history_paths =>
            (MainAt("setup") /\ cnt.total = 0 /\ cur.p = NoPath /\ records = <<>>)]_vars
    /\ [](HistoryLoaded => history_paths = PriorIndex)
    /\ [](~args.use_history => history_paths = {})
    /\ [][MainAt("setup") => (streaming => (report.exists /\ report.content # <<>>))]_vars
    /\ [][TakeStep =>
            (SkippedByHistory <=>
               (args.use_history /\
                [Head(iter_paths) EXCEPT !.stem = IF @ = "A" THEN "a" ELSE @] \in PriorIndex))]_vars

\* a streaming run with history has recorded a.mkv as skipped, and A.mkv,
\* whose lower-cased path is the same, is at the encoder: it was not skipped
\* by history
C29_Witness ==
    /\ args.use_history /\ streaming
    /\ MainAt("encode")
    /\ cur.p = P("A", "", 0, "mkv")
    /\ history_paths = {P("a", "", 0, "mp4")}
    /\ \E i \in 1..Len(report.content) :
         report.content[i].rec = Rec(P("a", "", 0, "mkv"), "skipped", "size_below_threshold")


----------------------------------------------------------------------------
(* Properties of the media over the whole run *)

\* an output of the tool for a source of this stem is in the tree
OutputOf(stem) == \E q \in DOMAIN fs : q.stem = stem /\ q.tag \in Markers

\* C30: no step sequence loses the media.  For the candidate in hand, from
\* the end of its encode onward, the original, the temporary output or the
\* destination exists; and for every source the scan found, at every later
\* point of the run, the source itself or an output of its stem exists, also
\* after the original was unlinked and the rename and the fallback move
\* failed.
C30_MediaNeverLost ==
    /\ (cur.p # NoPath /\ cur.ret = 0) =>
          \/ cur.p \in DOMAIN fs
          \/ cur.tmp_path \in DOMAIN fs
          \/ cur.target_path \in DOMAIN fs
    /\ \A p \in obs.listed : p.tag = "" => (p \in DOMAIN fs \/ OutputOf(p.stem))


----------------------------------------------------------------------------
(* Properties of a dry run *)

\* the step's share of the estimated total: the candidate's estimated saving
\* when the step did not count it as skipped and the saving is known and positive
DryRunShare ==
    LET e == estimate(args, fs[Head(iter_paths)], cur'.dur)
    IN  IF cnt'.skipped = cnt.skipped /\ e.known /\ e.saved > 0 THEN e.saved ELSE 0

\* in a dry run the encoder is never started, no step changes the tree, and
\* processed stays 0
DryRunTouchesNothing ==
    /\ [](args.dry_run => (obs.encoded = {} /\ cnt.processed = 0))
    /\ [][args.dry_run => (fs' = fs /\ stack'[1].pc # "encode")]_vars

\* in a dry run the estimated total and its count grow by the share of each
\* candidate the skip decision is taken for, and in no other step
DryRunTotalIsSumOfShares ==
    /\ [][(DecisionStep /\ args.dry_run) =>
            /\ cnt'.total = cnt.total + 1
            /\ (cnt'.skipped = cnt.skipped + 1) <=>
                 (ThresholdVerdict(fs[Head(iter_paths)], cur'.dur) # "")
            /\ cnt'.skipped \in {cnt.skipped, cnt.skipped + 1}
            /\ cnt'.est_total_saved = cnt.est_total_saved + DryRunShare
            /\ cnt'.est_total_count = cnt.est_total_count + (IF DryRunShare > 0 THEN 1 ELSE 0)]_vars
    /\ [][(cnt'.est_total_saved # cnt.est_total_saved \/ cnt'.est_total_count # cnt.est_total_count)
            => (DecisionStep /\ args.dry_run)]_vars

\* C31 as stated: in a dry run the encoder is never started, no file of the
\* tree is created, renamed or deleted, processed stays 0, every candidate
\* that is not skipped is recorded with action dry_run, whatever the report
\* format, and the estimated total is the sum of the positive estimated
\* savings of those candidates.
C31_EveryDryRunRecorded ==
    /\ DryRunTouchesNothing
    /\ DryRunTotalIsSumOfShares
    /\ [][(DecisionStep /\ args.dry_run /\ cnt'.skipped = cnt.skipped) =>
            records' = Append(records, Rec(Head(iter_paths), "dry_run", ""))]_vars

\* C31: in a dry run the encoder is never started, no step changes a file of
\* the tree, processed stays 0, a candidate that is not skipped is recorded
\* with action dry_run when the report format is csv or json and leaves no
\* record under the text format, and the estimated total is the sum of the
\* positive estimated savings of the candidates that are not skipped.
C31_DryRunLeavesTreeAlone ==
    /\ DryRunTouchesNothing
    /\ DryRunTotalIsSumOfShares
    /\ [][(DecisionStep /\ args.dry_run /\ cnt'.skipped = cnt.skipped) =>
            records' = IF args.report_format \in {"csv", "json"}
                       THEN Append(records, Rec(Head(iter_paths), "dry_run", ""))
                       ELSE records]_vars
    /\ [](args.report_format = "text" => records = <<>>)

\* a dry run with a json report is over: of the three sources one was skipped
\* and one was recorded as dry_run and counted in the estimated total, the
\* stale temporary output is still there
C31_Witness ==
    /\ args.dry_run /\ args.report_format = "json" /\ ~args.has_est_ratio
    /\ MainAt("end")
    /\ cnt.total = 3
    /\ cnt.skipped >= 1
    /\ cnt.est_total_count >= 1 /\ cnt.est_total_saved > 0
    /\ \E i \in 1..Len(records) : records[i].action = "dry_run"
    /\ Exists(fs, P("a", "transcoding", 0, "mkv"))


----------------------------------------------------------------------------
(* Properties of the processing cap *)

\* how many records of the run have the action act
Recorded(act) == Cardinality({ i \in 1..Len(records) : records[i].action = act })

\* C32: with --max-transcodes N, processed never exceeds N; from a state
\* where processed has reached N no step probes or encodes a file, counts a
\* candidate as scanned or adds a record; and processed is the number of
\* candidates recorded with action processed: a step that records a failed
\* or a skipped candidate leaves it as it was.
C32_CapCountsProcessedOnly ==
    /\ [](args.has_max => cnt.processed <= args.max_transcodes)
    /\ [][(args.has_max /\ cnt.processed >= args.max_transcodes) =>
            /\ obs'.probed = obs.probed
            /\ obs'.encoded = obs.encoded
            /\ cnt' = cnt
            /\ records' = records
            /\ fs' = fs]_vars
    /\ [](args.report_format \in {"csv", "json"} => cnt.processed = Recorded("processed"))
    /\ [][cnt'.processed # cnt.processed =>
            /\ cnt'.processed = cnt.processed + 1
            /\ records' = Append(records, records'[Len(records')])
            /\ records'[Len(records')].action = "processed"
            /\ records'[Len(records')].path = cur.p]_vars

\* a run under --max-transcodes 1 is over: its first candidate failed or saved
\* too little, its second was processed, and a third source above the size
\* threshold was never taken
C32_Witness ==
    /\ args.has_max /\ args.max_transcodes = 1
    /\ MainAt("end")
    /\ cnt.processed = 1 /\ cnt.total = 2
    /\ Len(records) = 2
    /\ \/ records[1].action = "failed"
       \/ records[1].action = "skipped" /\ records[1].reason = "insufficient_saving"
    /\ records[2].action = "processed"
    /\ iter_paths # <<>> /\ fs[Head(iter_paths)] >= args.min_bytes
    /\ Head(iter_paths) \notin obs.probed \cup obs.encoded


----------------------------------------------------------------------------
(* Properties of the duplicate remover *)

\* the items of the scan
Items == { iter_paths[i] : i \in 1..Len(iter_paths) }

\* the items of the target type whose lower-cased basename is that of the path p
GroupOf(p) ==
    { it \in Items :
        /\ it.type = args.filetype
        /\ [it.path EXCEPT !.stem = IF @ = "A" THEN "a" ELSE @].stem
             = [p EXCEPT !.stem = IF @ = "A" THEN "a" ELSE @].stem }

\* |a - b| / max(a, b) is at most the allowed difference (given in percent)
WithinAllowed(a, b) ==
    (IF a < b THEN b - a ELSE a - b) * 100
        <= args.allowed_size_difference * (IF a < b THEN b ELSE a)

HasPreferredExt(it) == normalize_ext(it.ext) = normalize_ext(args.preferred)

\* C33: a step deletes a file only outside --dry-run and only when the file is
\* of the target type, every file of its group has a readable size, every
\* two sizes of the group are within the allowed difference, and the group
\* has a file with the preferred extension, other than the deleted one, that
\* is as large as every file with the preferred extension and is still there
\* after the step; the file recorded as kept_preferred exists and is a largest
\* one with the preferred extension; of every group at least one file exists
\* at any time; no step creates a file, and none changes the directory under
\* --dry-run; when process returns 0 no record is pending.
C33_DeleteOnlyMatchedDuplicates ==
    /\ [][\A p \in DOMAIN fs \ DOMAIN fs' :
            LET G == GroupOf(p) IN
            /\ ~args.dry_run
            /\ \E it \in G : it.path = p
            /\ \A it \in G : it.size >= 0
            /\ \A x, y \in G : WithinAllowed(x.size, y.size)
            /\ \E k \in G :
                 /\ HasPreferredExt(k) /\ k.path # p
                 /\ k.path \in DOMAIN fs'
                 /\ \A j \in G : HasPreferredExt(j) => j.size <= k.size]_vars
    /\ [](\A p \in DOMAIN records :
            records[p].action = "kept_preferred" =>
                /\ p \in DOMAIN fs
                /\ \E k \in GroupOf(p) :
                     /\ k.path = p /\ HasPreferredExt(k)
                     /\ \A j \in GroupOf(p) : HasPreferredExt(j) => j.size <= k.size)
    /\ [](\A it \in Items :
            it.type = args.filetype => \E k \in GroupOf(it.path) : k.path \in DOMAIN fs)
    /\ [][DOMAIN fs' \subseteq DOMAIN fs /\ (args.dry_run => fs' = fs)]_vars
    /\ [](args.dry_run => obs.removed = {})
    /\ []((MainAt("exited") /\ proc.exit_status = 0) =>
            \A p \in DOMAIN records : records[p].action # "pending")

\* a run without --dry-run has returned: of a group of three files two were
\* deleted and the third, recorded as kept_preferred, is the only file left
C33_Witness ==
    /\ ~args.dry_run
    /\ MainAt("exited") /\ proc.exit_status = 0
    /\ Cardinality(DOMAIN records) = 3
    /\ \E p \in DOMAIN records :
         /\ records[p].action = "kept_preferred"
         /\ DOMAIN fs = {p}
         /\ \A q \in DOMAIN records \ {p} : records[q].action = "deleted"
         /\ Cardinality(GroupOf(p)) = 3

====
